---- MODULE Spec2Model ----
(***************************************************************************)
(* Model of the eventsproc checkpointed batch processor                    *)
(* (pkg/processor Processor.Run / Processor.processEvents) together with   *)
(* the parts of pkg/events EventReader it drives: GetEvents, GetCheckpoint *)
(* and SaveCheckpoint, and the EventWriter it delivers to.                 *)
(*                                                                         *)
(* One process at a time owns the consumer identity (single writer); a     *)
(* crash or exit followed by a new start is the action Restart.  SpecPeers *)
(* alone runs a second process next to it.                                 *)
(*                                                                         *)
(* Spec       the processor with its store, source and sink                *)
(* SpecOps    Spec with the operator's documented reset of the checkpoint  *)
(* SpecTicker one run of the process with the ticker channel in detail     *)
(* SpecRun    one run of the process with its shutdown, under fairness     *)
(* SpecStore  GetCheckpoint and SaveCheckpoint on their own                *)
(* SpecPeers  two processes, with the same or with distinct consumer ids   *)
(* SpecFailover  crash and restart, with the log of what the sink received *)
(* SpecOrder  failure-free runs, with the log of what the sink received    *)
(* SpecScenario  the three-event walk-through of one cycle                 *)
(* SpecEnrich the actor e-mail enrichment of GetEvents on its own          *)
(* SpecNulls  the processor on a row whose text columns may be NULL        *)
(* SpecQuery  the statements GetEvents and GetEventCount build             *)
(* SpecStdout the processor with the stdout writer as its sink             *)
(* SpecTotals the processor, with what each process loaded and delivered   *)
(***************************************************************************)
EXTENDS Integers, Sequences, FiniteSets

\* ------------------------------------------------------------------ bounds
MaxId == 2          \* event ids are 1..MaxId (storage assigns them increasing)
MaxTs == 2          \* event timestamps are 1..MaxTs
MaxBatch == 2       \* configured batch_size ranges over 0..MaxBatch

\* ------------------------------------------------------- program constants
MaxNow == MaxTs + 1     \* the wall clock runs from MaxTs to MaxNow
DefaultLimit == 1000    \* GetEvents: limit applied when opts.Limit == 0
Lookback1 == 1          \* the positive lookback_hours value explored
ZeroTime == 0           \* time.Time{}
NilTime == [nil |-> TRUE]    \* a nil *time.Time
Hostnames == {"node-a", "unknown"}

NoRow == [present |-> FALSE]
NilCheckpoint == [loaded |-> FALSE]

VARIABLES
    config,     \* config.Config: BatchSize, LookbackHours, PollingInterval
    table,      \* rows of the events table: records [id, ts]
    now,        \* wall clock, read by time.Now()
    stored,     \* the idp.event_processing_checkpoint row of the consumer
    hostname,   \* Processor.hostname
    cp,         \* Processor.checkpoint (in memory)
    opts,       \* processEvents' opts (events.EventQueryOptions)
    batch,      \* processEvents' eventBatch
    pc,         \* position of the process in Run / processEvents
    cancelled,  \* ctx.Err() != nil
    cycleErr,   \* error returned by processEvents ("nil"; "none" while it runs)
    runErr,     \* error returned by Run ("none" while it runs)
    trace,      \* history: store/sink calls made by the current cycle
    prev,       \* history: how the previous cycle of this process ended
    committed,  \* history: the largest last_event_id ever stored (0: none)
    ticker,     \* Run's time.Ticker: ticks buffered in ticker.C, ticks dropped
    sink,       \* history: how often each event id was delivered to the sink
    peer        \* a second process, and the checkpoint rows of other consumers

vars == <<config, table, now, stored, hostname, cp, opts, batch, pc,
          cancelled, cycleErr, runErr, trace, prev, committed, ticker,
          sink, peer>>

Min(a, b) == IF a < b THEN a ELSE b

Max(a, b) == IF a > b THEN a ELSE b

Last(sq) == sq[Len(sq)]

\* ------------------------------------------------------------- EventReader

\* Matches with the minimum-id bound made inclusive (id >= bound).
Matches_Inclusive(o, c) ==
    { e \in table :
        /\ (~o.StartTime.nil => e.ts >= o.StartTime.t)
        /\ (o.MinEventID = "ptr" => e.id >= c.LastEventID) }

\* Matches paging by timestamp: the bound is the checkpoint's
\* last_event_timestamp instead of its last_event_id.
Matches_ByTimestamp(o, c) ==
    { e \in table :
        /\ (~o.StartTime.nil => e.ts >= o.StartTime.t)
        /\ (o.MinEventID = "ptr" => e.ts > c.LastEventTimestamp) }

\* WHERE clause of GetEvents: timestamp >= StartTime, id > *MinEventID.
\* opts.MinEventID, when set, points at p.checkpoint.LastEventID, so the
\* bound is read from the in-memory checkpoint c at the time of the call.
Matches(o, c) ==
    { e \in table :
        /\ (~o.StartTime.nil => e.ts >= o.StartTime.t)
        /\ (o.MinEventID = "ptr" => e.id > c.LastEventID) }

\* ORDER BY e.timestamp ASC|DESC: every sequence of the rows of S that is
\* sorted by timestamp; rows with equal timestamps come in any order.
Orderings(S, asc) ==
    { s \in [1..Cardinality(S) -> S] :
        /\ \A i, j \in 1..Cardinality(S) : i # j => s[i] # s[j]
        /\ \A i, j \in 1..Cardinality(S) :
              i < j => IF asc THEN s[i].ts <= s[j].ts ELSE s[i].ts >= s[j].ts }

\* LIMIT applied by GetEvents.
EffectiveLimit(o) == IF o.Limit = 0 THEN DefaultLimit ELSE o.Limit

\* LIMIT $n OFFSET $m
Page(s, limit, offset) == SubSeq(s, offset + 1, Min(Len(s), offset + limit))

\* The result sets GetEvents can return without error.
GetEvents(o, c) ==
    { Page(s, EffectiveLimit(o), o.Offset) : s \in Orderings(Matches(o, c), o.OrderAsc) }

\* The row SaveCheckpoint upserts for checkpoint c.
RowOf(c) ==
    [present |-> TRUE,
     last_event_id |-> c.LastEventID,
     last_event_timestamp |-> c.LastEventTimestamp,
     total_events_processed |-> c.TotalEventsProcessed,
     processing_node |-> c.ProcessingNode]

\* The checkpoint GetCheckpoint scans from a found row.
CheckpointOf(r) ==
    [loaded |-> TRUE,
     LastEventID |-> r.last_event_id,
     LastEventTimestamp |-> r.last_event_timestamp,
     TotalEventsProcessed |-> r.total_events_processed,
     ProcessingNode |-> r.processing_node]

\* Upsert that also overwrites created_at.
Upsert_ResetsCreatedAt(r, c, t) ==
    [present |-> TRUE,
     last_event_id |-> c.LastEventID,
     last_event_timestamp |-> c.LastEventTimestamp,
     total_events_processed |-> c.TotalEventsProcessed,
     processing_node |-> c.ProcessingNode,
     updated_at |-> t,
     created_at |-> t]

\* The row SaveCheckpoint leaves at time t when the row before is r, with
\* its timestamps: INSERT ... ON CONFLICT (consumer_id) DO UPDATE sets the
\* four checkpoint columns and updated_at, and keeps created_at.  (The
\* processor never reads the two timestamps; RowOf is this row without them.)
Upsert(r, c, t) ==
    [present |-> TRUE,
     last_event_id |-> c.LastEventID,
     last_event_timestamp |-> c.LastEventTimestamp,
     total_events_processed |-> c.TotalEventsProcessed,
     processing_node |-> c.ProcessingNode,
     updated_at |-> t,
     created_at |-> IF r.present THEN r.created_at ELSE t]

\* The checkpoint columns of a row.
Columns(r) ==
    IF r.present
    THEN [present |-> TRUE,
          last_event_id |-> r.last_event_id,
          last_event_timestamp |-> r.last_event_timestamp,
          total_events_processed |-> r.total_events_processed,
          processing_node |-> r.processing_node]
    ELSE NoRow

\* GetCheckpoint that reports a missing row as a failure.
GetCheckpoint_NoRowsIsError(r, ok) ==
    IF ~ok \/ ~r.present THEN [err |-> "query", checkpoint |-> NilCheckpoint]
    ELSE [err |-> "nil", checkpoint |-> CheckpointOf(r)]

\* GetCheckpoint: the (checkpoint, error) returned for the stored row r; ok
\* is FALSE when the query fails.  No row (sql.ErrNoRows) is (nil, nil).
GetCheckpoint(r, ok) ==
    IF ~ok THEN [err |-> "query", checkpoint |-> NilCheckpoint]
    ELSE IF ~r.present THEN [err |-> "nil", checkpoint |-> NilCheckpoint]
    ELSE [err |-> "nil", checkpoint |-> CheckpointOf(r)]

\* --------------------------------------------------------------- Processor

\* Run: the checkpoint created when none is stored.
FreshCheckpoint(host) ==
    [loaded |-> TRUE, LastEventID |-> 0, LastEventTimestamp |-> ZeroTime,
     TotalEventsProcessed |-> 0, ProcessingNode |-> host]

\* AdvanceCheckpoint taking the first record of the batch instead of the last.
AdvanceCheckpoint_FirstRecord(c, b, host) ==
    [c EXCEPT !.LastEventID = b[1].id,
              !.LastEventTimestamp = b[1].ts,
              !.TotalEventsProcessed = c.TotalEventsProcessed + Len(b),
              !.ProcessingNode = host]

\* AdvanceCheckpoint that counts delivered batches instead of records.
AdvanceCheckpoint_CountsBatches(c, b, host) ==
    [c EXCEPT !.LastEventID = b[Len(b)].id,
              !.LastEventTimestamp = b[Len(b)].ts,
              !.TotalEventsProcessed = c.TotalEventsProcessed + 1,
              !.ProcessingNode = host]

\* processEvents: "Update checkpoint" after a delivered batch b.
AdvanceCheckpoint(c, b, host) ==
    [c EXCEPT !.LastEventID = b[Len(b)].id,
              !.LastEventTimestamp = b[Len(b)].ts,
              !.TotalEventsProcessed = c.TotalEventsProcessed + Len(b),
              !.ProcessingNode = host]

\* BuildOpts that never resumes from the checkpoint.
BuildOpts_NoResume(cfg, c, t) ==
    [Limit |-> cfg.BatchSize,
     Offset |-> 0,
     OrderAsc |-> TRUE,
     MinEventID |-> "nil",
     StartTime |-> IF cfg.LookbackHours > 0
                   THEN [nil |-> FALSE, t |-> t - cfg.LookbackHours]
                   ELSE NilTime]

\* BuildOpts asking for the newest records first.
BuildOpts_Descending(cfg, c, t) ==
    [Limit |-> cfg.BatchSize,
     Offset |-> 0,
     OrderAsc |-> FALSE,
     MinEventID |-> IF c.LastEventID > 0 THEN "ptr" ELSE "nil",
     StartTime |-> IF c.LastEventID > 0 THEN NilTime
                   ELSE IF cfg.LookbackHours > 0
                        THEN [nil |-> FALSE, t |-> t - cfg.LookbackHours]
                   ELSE NilTime]

\* BuildOpts that ignores lookback_hours.
BuildOpts_NoLookback(cfg, c, t) ==
    [Limit |-> cfg.BatchSize,
     Offset |-> 0,
     OrderAsc |-> TRUE,
     MinEventID |-> IF c.LastEventID > 0 THEN "ptr" ELSE "nil",
     StartTime |-> NilTime]

\* processEvents: opts as built before the loop.
BuildOpts(cfg, c, t) ==
    [Limit |-> cfg.BatchSize,
     Offset |-> 0,
     OrderAsc |-> TRUE,
     MinEventID |-> IF c.LastEventID > 0 THEN "ptr" ELSE "nil",
     StartTime |-> IF c.LastEventID > 0 THEN NilTime
                   ELSE IF cfg.LookbackHours > 0
                        THEN [nil |-> FALSE, t |-> t - cfg.LookbackHours]
                   ELSE NilTime]

\* LastPage that also ends the cycle on a full page.
LastPage_Inclusive(cfg, b) == Len(b) <= cfg.BatchSize

\* processEvents: "If we got fewer events than batch size, we're done".
LastPage(cfg, b) == Len(b) < cfg.BatchSize

NoOpts == [Limit |-> 0, Offset |-> 0, OrderAsc |-> FALSE,
           MinEventID |-> "nil", StartTime |-> NilTime]

NoPrev == [kind |-> "none"]

\* time.NewTicker: nothing buffered in ticker.C (and no tick dropped so far).
NoTicker == [pending |-> 0, dropped |-> FALSE]

\* Nothing delivered yet.  count[i] is the number of deliveries of event i
\* (counted up to 2); past holds the ids delivered by processes that have
\* ended; loaded is the total_events_processed the running process started
\* with and sent the number of records it has delivered since.
NoSink == [count |-> [i \in 1..MaxId |-> 0], past |-> {}, loaded |-> 0, sent |-> 0]

\* No second process.
NoPeer == [pc |-> "off"]

Configs ==
    [BatchSize : 0..MaxBatch, LookbackHours : {0, Lookback1}, PollingInterval : {0, 1}]

Init ==
    /\ config \in Configs
    /\ table = {}
    /\ now = MaxTs
    /\ stored = NoRow
    /\ hostname \in Hostnames
    /\ cp = NilCheckpoint
    /\ opts = NoOpts
    /\ batch = <<>>
    /\ pc = "run"
    /\ cancelled = FALSE
    /\ cycleErr = "none"
    /\ runErr = "none"
    /\ trace = <<>>
    /\ prev = NoPrev
    /\ committed = 0
    /\ ticker = NoTicker
    /\ sink = NoSink
    /\ peer = NoPeer

\* ------------------------------------------------------------- environment

\* The upstream producer inserts a row; storage assigns a larger id.  The
\* process reads the table only in GetEvents, so rows are added while it is
\* about to start or about to fetch.
InsertEvent ==
    /\ pc \in {"run", "loop"}
    /\ \E id \in 1..MaxId, ts \in 1..MaxTs :
          /\ \A e \in table : e.id < id
          /\ table' = table \cup {[id |-> id, ts |-> ts]}
    /\ UNCHANGED <<config, now, stored, hostname, cp, opts, batch, pc,
                   cancelled, cycleErr, runErr, trace, prev, committed, ticker, sink, peer>>

\* Time passes; the process reads the clock only when a cycle starts with a
\* lookback configured.
Tick ==
    /\ pc = "cycle"
    /\ config.LookbackHours > 0
    /\ now < MaxNow
    /\ now' = now + 1
    /\ UNCHANGED <<config, table, stored, hostname, cp, opts, batch, pc,
                   cancelled, cycleErr, runErr, trace, prev, committed, ticker, sink, peer>>

\* main: a signal cancels the context; the process looks at it at the loop
\* head and while waiting for a tick.
Cancel ==
    /\ pc \in {"loop", "wait"}
    /\ ~cancelled
    /\ cancelled' = TRUE
    /\ UNCHANGED <<config, table, now, stored, hostname, cp, opts, batch, pc,
                   cycleErr, runErr, trace, prev, committed, ticker, sink, peer>>

\* The process ends (crash, kill or exit) and a new one is started on some
\* node with the same configuration: NewProcessor, then Run.
Restart ==
    /\ pc # "run"
    /\ hostname' \in Hostnames
    /\ cp' = NilCheckpoint
    /\ opts' = NoOpts
    /\ batch' = <<>>
    /\ pc' = "run"
    /\ cancelled' = FALSE
    /\ cycleErr' = "none"
    /\ runErr' = "none"
    /\ trace' = <<>>
    /\ prev' = NoPrev
    /\ ticker' = NoTicker
    /\ UNCHANGED <<config, table, now, stored, committed, sink, peer>>

\* --------------------------------------------------------------------- Run

\* Run: GetCheckpoint fails; Run returns the error.
LoadCheckpointFail ==
    /\ pc = "run"
    /\ GetCheckpoint(stored, FALSE).err # "nil"
    /\ pc' = "exit"
    /\ runErr' = "load"
    /\ UNCHANGED <<config, table, now, stored, hostname, cp, opts, batch,
                   cancelled, cycleErr, trace, prev, committed, ticker, sink, peer>>

\* LoadCheckpoint that writes the initialised checkpoint to the store.
LoadCheckpoint_Persists ==
    /\ pc = "run"
    /\ LET got == GetCheckpoint(stored, TRUE)
       IN  cp' = IF got.checkpoint = NilCheckpoint
                 THEN FreshCheckpoint(hostname)
                 ELSE got.checkpoint
    /\ stored' = RowOf(cp')
    /\ pc' = "cycle"
    /\ UNCHANGED <<config, table, now, hostname, opts, batch,
                   cancelled, cycleErr, runErr, trace, prev, committed, ticker, sink, peer>>

\* Run: GetCheckpoint returns the stored row, or nil when there is none, in
\* which case the checkpoint is initialised in memory.
LoadCheckpoint ==
    /\ pc = "run"
    /\ LET got == GetCheckpoint(stored, TRUE)
       IN  cp' = IF got.checkpoint = NilCheckpoint
                 THEN FreshCheckpoint(hostname)
                 ELSE got.checkpoint
    /\ pc' = "cycle"
    /\ UNCHANGED <<config, table, now, stored, hostname, opts, batch,
                   cancelled, cycleErr, runErr, trace, prev, committed, ticker, sink, peer>>

\* AfterCycle that waits for the ticker whatever polling_interval is.
AfterCycle_AlwaysPolls(err) ==
    /\ pc' = "wait"
    /\ cycleErr' = err
    /\ runErr' = runErr

\* Run: what follows a return of processEvents with error err ("nil" for
\* none): Run returns it when polling_interval is 0, else logs it and waits.
AfterCycle(err) ==
    /\ pc' = IF config.PollingInterval = 0 THEN "exit" ELSE "wait"
    /\ cycleErr' = err
    /\ runErr' = IF config.PollingInterval = 0 THEN err ELSE runErr

\* Run: the ticker fires and the next cycle is started (its history begins).
TickerFire ==
    /\ pc = "wait"
    /\ pc' = "cycle"
    /\ cycleErr' = "none"
    /\ trace' = <<>>
    /\ UNCHANGED <<config, table, now, stored, hostname, cp, opts, batch,
                   cancelled, runErr, prev, committed, ticker, sink, peer>>

\* Run: ctx.Done() is selected; Run returns ctx.Err().
CtxDone ==
    /\ pc = "wait"
    /\ cancelled
    /\ pc' = "exit"
    /\ runErr' = "ctx"
    /\ UNCHANGED <<config, table, now, stored, hostname, cp, opts, batch,
                   cancelled, cycleErr, trace, prev, committed, ticker, sink, peer>>

\* ----------------------------------------------------------- processEvents

\* One entry of the cycle history: the call made, the batch it carried, and
\* the in-memory checkpoint c, the stored row and the options o as they are
\* when the call has returned.
Entry(op, b, c, row, o) ==
    [op |-> op, batch |-> b, cp |-> c, stored |-> row, opts |-> o,
     table |-> IF op = "start" THEN table ELSE {}]

\* History kept when a cycle is aborted by a failed send or save of batch
\* b: the table and time bound of its fetch, whether the table changed
\* during the cycle, and whether the cycle had committed a batch before.
Ended(kind, b) ==
    [kind |-> kind, batch |-> b,
     table |-> table,
     timeBound |-> ~opts.StartTime.nil,
     tableChanged |-> table # trace[1].table,
     committedBefore |-> Len(trace) > 3]

\* processEvents up to the loop: build the query options.
StartCycle ==
    /\ pc = "cycle"
    /\ opts' = BuildOpts(config, cp, now)
    /\ batch' = <<>>
    /\ trace' = <<Entry("start", <<>>, cp, stored, opts')>>
    /\ cycleErr' = "none"
    /\ pc' = "loop"
    /\ UNCHANGED <<config, table, now, stored, hostname, cp,
                   cancelled, runErr, prev, committed, ticker, sink, peer>>

\* Loop head: the context is cancelled; processEvents returns ctx.Err().
LoopCancelled ==
    /\ pc = "loop"
    /\ cancelled
    /\ AfterCycle("ctx")
    /\ prev' = NoPrev
    /\ UNCHANGED <<config, table, now, stored, hostname, cp, opts, batch,
                   cancelled, trace, committed, ticker, sink, peer>>

\* GetEventsFail that still persists the in-memory checkpoint.
GetEventsFail_Saves ==
    /\ pc = "loop"
    /\ ~cancelled
    /\ stored' = RowOf(cp)
    /\ trace' = Append(trace, Entry("fetch_err", <<>>, cp, stored', opts))
    /\ AfterCycle("fetch")
    /\ prev' = NoPrev
    /\ UNCHANGED <<config, table, now, hostname, cp, opts, batch,
                   cancelled, committed, ticker, sink, peer>>

\* GetEvents fails; processEvents returns the error.
GetEventsFail ==
    /\ pc = "loop"
    /\ ~cancelled
    /\ trace' = Append(trace, Entry("fetch_err", <<>>, cp, stored, opts))
    /\ AfterCycle("fetch")
    /\ prev' = NoPrev
    /\ UNCHANGED <<config, table, now, stored, hostname, cp, opts, batch,
                   cancelled, committed, ticker, sink, peer>>

\* GetEventsOk without the ctx.Err() test at the loop head.
GetEventsOk_IgnoresCtx ==
    /\ pc = "loop"
    /\ \E b \in GetEvents(opts, cp) :
          /\ batch' = b
          /\ trace' = Append(trace, Entry("fetch", b, cp, stored, opts))
          /\ IF Len(b) = 0
             THEN /\ AfterCycle("nil")
                  /\ prev' = NoPrev
             ELSE /\ pc' = "send"
                  /\ UNCHANGED <<cycleErr, runErr, prev>>
    /\ UNCHANGED <<config, table, now, stored, hostname, cp, opts,
                   cancelled, committed, ticker, sink, peer>>

\* GetEvents returns a batch; an empty batch ends the cycle.
GetEventsOk ==
    /\ pc = "loop"
    /\ ~cancelled
    /\ \E b \in GetEvents(opts, cp) :
          /\ batch' = b
          /\ trace' = Append(trace, Entry("fetch", b, cp, stored, opts))
          /\ IF Len(b) = 0
             THEN /\ AfterCycle("nil")
                  /\ prev' = NoPrev
             ELSE /\ pc' = "send"
                  /\ UNCHANGED <<cycleErr, runErr, prev>>
    /\ UNCHANGED <<config, table, now, stored, hostname, cp, opts,
                   cancelled, committed, ticker, sink, peer>>

\* SendEventsFail that logs the error and goes on to the next fetch.
SendEventsFail_Continues ==
    /\ pc = "send"
    /\ trace' = Append(trace, Entry("send_err", batch, cp, stored, opts))
    /\ pc' = "loop"
    /\ UNCHANGED <<config, table, now, stored, hostname, cp, opts, batch,
                   cancelled, cycleErr, runErr, prev, committed, ticker, sink, peer>>

\* SendEventsFail that drops the error and commits the batch all the same.
SendEventsFail_Ignored ==
    /\ pc = "send"
    /\ cp' = AdvanceCheckpoint(cp, batch, hostname)
    /\ trace' = Append(trace, Entry("send_err", batch, cp', stored, opts))
    /\ pc' = "save"
    /\ UNCHANGED <<config, table, now, stored, hostname, opts, batch,
                   cancelled, cycleErr, runErr, prev, committed, ticker, sink, peer>>

\* SendEventsFail with the checkpoint advanced before the delivery.
SendEventsFail_AdvancesCheckpoint ==
    /\ pc = "send"
    /\ cp' = AdvanceCheckpoint(cp, batch, hostname)
    /\ trace' = Append(trace, Entry("send_err", batch, cp', stored, opts))
    /\ AfterCycle("send")
    /\ prev' = Ended("send", batch)
    /\ UNCHANGED <<config, table, now, stored, hostname, opts, batch,
                   cancelled, committed, ticker, sink, peer>>

\* SendEvents fails; processEvents returns the error.
SendEventsFail ==
    /\ pc = "send"
    /\ trace' = Append(trace, Entry("send_err", batch, cp, stored, opts))
    /\ AfterCycle("send")
    /\ prev' = Ended("send", batch)
    /\ UNCHANGED <<config, table, now, stored, hostname, cp, opts, batch,
                   cancelled, committed, ticker, sink, peer>>

\* SendEvents succeeds; the in-memory checkpoint is advanced.
SendEventsOk ==
    /\ pc = "send"
    /\ cp' = AdvanceCheckpoint(cp, batch, hostname)
    /\ trace' = Append(trace, Entry("send", batch, cp', stored, opts))
    /\ pc' = "save"
    /\ UNCHANGED <<config, table, now, stored, hostname, opts, batch,
                   cancelled, cycleErr, runErr, prev, committed, ticker, sink, peer>>

\* SaveCheckpointFail whose write reached the table before the error.
SaveCheckpointFail_Writes ==
    /\ pc = "save"
    /\ stored' = RowOf(cp)
    /\ trace' = Append(trace, Entry("save_err", batch, cp, stored', opts))
    /\ AfterCycle("save")
    /\ prev' = Ended("save", batch)
    /\ UNCHANGED <<config, table, now, hostname, cp, opts, batch,
                   cancelled, committed, ticker, sink, peer>>

\* SaveCheckpoint fails; processEvents returns the error.
SaveCheckpointFail ==
    /\ pc = "save"
    /\ trace' = Append(trace, Entry("save_err", batch, cp, stored, opts))
    /\ AfterCycle("save")
    /\ prev' = Ended("save", batch)
    /\ UNCHANGED <<config, table, now, stored, hostname, cp, opts, batch,
                   cancelled, committed, ticker, sink, peer>>

\* SaveCheckpoint succeeds; a short batch ends the cycle, a full one loops
\* with MinEventID pointing at the checkpoint.  (The history of the previous
\* cycle is kept up to the first commit of the next.)
SaveCheckpointOk ==
    /\ pc = "save"
    /\ stored' = RowOf(cp)
    /\ committed' = Max(committed, stored'.last_event_id)
    /\ IF LastPage(config, batch)
       THEN /\ AfterCycle("nil")
            /\ prev' = NoPrev
            /\ UNCHANGED opts
       ELSE /\ opts' = [opts EXCEPT !.MinEventID = "ptr", !.Offset = 0]
            /\ pc' = "loop"
            /\ prev' = NoPrev
            /\ UNCHANGED <<cycleErr, runErr>>
    /\ trace' = Append(trace, Entry("save", batch, cp, stored', opts'))
    /\ UNCHANGED <<config, table, now, hostname, cp, batch, cancelled, ticker, sink, peer>>

Next ==
    \/ InsertEvent
    \/ Tick
    \/ Cancel
    \/ Restart
    \/ LoadCheckpointFail
    \/ LoadCheckpoint
    \/ TickerFire
    \/ CtxDone
    \/ StartCycle
    \/ LoopCancelled
    \/ GetEventsFail
    \/ GetEventsOk
    \/ SendEventsFail
    \/ SendEventsOk
    \/ SaveCheckpointFail
    \/ SaveCheckpointOk

Spec == Init /\ [][Next]_vars

\* ------------------------------------------- operator reset of the checkpoint

\* docs/SETUP.md 8.2.1 "Reset Checkpoint": the operator sets last_event_id
\* and total_events_processed of the consumer's row to 0 (the process reads
\* the row only when it starts).
ResetCheckpoint ==
    /\ pc = "run"
    /\ stored.present
    /\ stored.last_event_id > 0
    /\ stored' = [stored EXCEPT !.last_event_id = 0,
                                !.total_events_processed = 0]
    /\ UNCHANGED <<config, table, now, hostname, cp, opts, batch, pc,
                   cancelled, cycleErr, runErr, trace, prev, committed, ticker, sink, peer>>

NextOps ==
    \/ Next
    \/ ResetCheckpoint

SpecOps == Init /\ [][NextOps]_vars

\* ---------------------------------------------- the ticker of the run loop

\* The runtime timer of the ticker fires: the tick is put in ticker.C, which
\* buffers one tick, or is dropped when a tick is still buffered.  The
\* process reads ticker.C only while it waits, and then receives a tick
\* before the next one fires; a tick during a cycle is placed at the loop
\* head.
TimerTick ==
    /\ config.PollingInterval > 0
    /\ pc \in {"loop", "wait"}
    /\ pc = "wait" => ticker.pending = 0
    /\ ticker' = [pending |-> 1,
                  dropped |-> ticker.dropped \/ ticker.pending = 1]
    /\ UNCHANGED <<config, table, now, stored, hostname, cp, opts, batch, pc,
                   cancelled, cycleErr, runErr, trace, prev, committed,
                   sink, peer>>

\* Run: the select receives the buffered tick from ticker.C and the next
\* cycle is started (ticker.dropped is history: a tick was dropped since
\* the last one received).
TickerReceive ==
    /\ pc = "wait"
    /\ ticker.pending = 1
    /\ ticker' = NoTicker
    /\ pc' = "cycle"
    /\ cycleErr' = "none"
    /\ trace' = <<>>
    /\ UNCHANGED <<config, table, now, stored, hostname, cp, opts, batch,
                   cancelled, runErr, prev, committed, sink, peer>>

\* ------------------------------------------------ one run, and its shutdown

\* main: the signal arrives while SendEvents or SaveCheckpoint is running.
CancelInFlight ==
    /\ pc \in {"send", "save"}
    /\ ~cancelled
    /\ cancelled' = TRUE
    /\ UNCHANGED <<config, table, now, stored, hostname, cp, opts, batch, pc,
                   cycleErr, runErr, trace, prev, committed, ticker, sink, peer>>

\* The steps of the process itself: calls return and the select proceeds.
RunStep ==
    \/ LoadCheckpointFail
    \/ LoadCheckpoint
    \/ TickerFire
    \/ CtxDone
    \/ StartCycle
    \/ LoopCancelled
    \/ GetEventsFail
    \/ GetEventsOk
    \/ SendEventsFail
    \/ SendEventsOk
    \/ SaveCheckpointFail
    \/ SaveCheckpointOk

\* One process from its start to its exit, with no lookback configured.
InitRun ==
    /\ Init
    /\ config.LookbackHours = 0
    /\ hostname = "node-a"

NextRun ==
    \/ InsertEvent
    \/ Cancel
    \/ CancelInFlight
    \/ RunStep

\* The process keeps taking steps, and a select that finds ctx.Done() ready
\* again and again does not choose ticker.C for ever (Go picks among the
\* ready cases at random).
SpecRun ==
    /\ InitRun
    /\ [][NextRun]_vars
    /\ WF_vars(RunStep)
    /\ SF_vars(CtxDone)

\* One process from its start to its exit, with the timer and the receive
\* from ticker.C as separate steps.
NextTicker ==
    \/ InsertEvent
    \/ Cancel
    \/ TimerTick
    \/ LoadCheckpointFail
    \/ LoadCheckpoint
    \/ TickerReceive
    \/ CtxDone
    \/ StartCycle
    \/ LoopCancelled
    \/ GetEventsFail
    \/ GetEventsOk
    \/ SendEventsFail
    \/ SendEventsOk
    \/ SaveCheckpointFail
    \/ SaveCheckpointOk

SpecTicker == InitRun /\ [][NextTicker]_vars

\* ------------------------------------------------ the checkpoint store alone

\* The checkpoints handed to SaveCheckpoint.
StoreCheckpoints ==
    [loaded : {TRUE}, LastEventID : 0..MaxId,
     LastEventTimestamp : {ZeroTime, MaxTs},
     TotalEventsProcessed : {0, MaxId}, ProcessingNode : Hostnames]

\* History of the last call on the store: the call, its argument, the row
\* before it, the clock, whether the statement was executed (ok), and what
\* the call returned.
StoreCall(op, c, before, ok, got) ==
    [op |-> op, arg |-> c, before |-> before, at |-> now, ok |-> ok,
     err |-> got.err, checkpoint |-> got.checkpoint]

InitStore ==
    /\ Init
    /\ config = [BatchSize |-> 1, LookbackHours |-> 0, PollingInterval |-> 0]
    /\ hostname = "node-a"

\* SaveCheckpoint(c) succeeds.
StoreSave ==
    /\ \E c \in StoreCheckpoints :
          /\ stored' = Upsert(stored, c, now)
          /\ trace' = <<StoreCall("save", c, stored, TRUE,
                                  [err |-> "nil", checkpoint |-> NilCheckpoint])>>
    /\ UNCHANGED <<config, table, now, hostname, cp, opts, batch, pc,
                   cancelled, cycleErr, runErr, prev, committed, ticker, sink, peer>>

\* SaveCheckpoint(c) fails: ExecContext returns an error, nothing is written.
StoreSaveFail ==
    /\ \E c \in StoreCheckpoints :
          trace' = <<StoreCall("save", c, stored, FALSE,
                               [err |-> "exec", checkpoint |-> NilCheckpoint])>>
    /\ UNCHANGED <<config, table, now, stored, hostname, cp, opts, batch, pc,
                   cancelled, cycleErr, runErr, prev, committed, ticker, sink, peer>>

\* GetCheckpoint is called and its query succeeds.
StoreLoad ==
    /\ trace' = <<StoreCall("load", NilCheckpoint, stored, TRUE,
                            GetCheckpoint(stored, TRUE))>>
    /\ UNCHANGED <<config, table, now, stored, hostname, cp, opts, batch, pc,
                   cancelled, cycleErr, runErr, prev, committed, ticker, sink, peer>>

\* GetCheckpoint is called and its query fails.
StoreLoadFail ==
    /\ trace' = <<StoreCall("load", NilCheckpoint, stored, FALSE,
                            GetCheckpoint(stored, FALSE))>>
    /\ UNCHANGED <<config, table, now, stored, hostname, cp, opts, batch, pc,
                   cancelled, cycleErr, runErr, prev, committed, ticker, sink, peer>>

\* Time passes between two calls (NOW() of the database).
StoreTick ==
    /\ now < MaxNow
    /\ now' = now + 1
    /\ UNCHANGED <<config, table, stored, hostname, cp, opts, batch, pc,
                   cancelled, cycleErr, runErr, trace, prev, committed, ticker, sink, peer>>

NextStore ==
    \/ StoreSave
    \/ StoreSaveFail
    \/ StoreLoad
    \/ StoreLoadFail
    \/ StoreTick

SpecStore == InitStore /\ [][NextStore]_vars

\* --------------------------------------------- two processes (two HA nodes)

\* consumer_id of the README's two HA nodes.  The process of the variables
\* cp, opts, batch, pc runs as Consumer1 and `stored` is the row of
\* Consumer1; the second process runs the same code as peer.consumer.
Consumer1 == "eventsproc-prod-node1"
Consumer2 == "eventsproc-prod-node2"
ConsumerIDs == {Consumer1, Consumer2}

\* idp.event_processing_checkpoint: one row per consumer_id (PRIMARY KEY).
CheckpointTable ==
    [k \in ConsumerIDs |-> IF k = Consumer1 THEN stored ELSE peer.rows[k]]

\* GetCheckpoint: SELECT ... WHERE consumer_id = $1
SelectCheckpoint(tbl, k) == tbl[k]

\* Upsert that compares: the row is written only if it does not lower
\* last_event_id.
UpsertCheckpoint_KeepsLarger(tbl, k, c) ==
    IF tbl[k].present /\ tbl[k].last_event_id > c.LastEventID
    THEN tbl
    ELSE [tbl EXCEPT ![k] = RowOf(c)]

\* Upsert without the key: every row of the table is overwritten.
UpsertCheckpoint_AnyRow(tbl, k, c) == [j \in DOMAIN tbl |-> RowOf(c)]

\* SaveCheckpoint: INSERT ... ON CONFLICT (consumer_id) DO UPDATE SET ...
\* The new values replace the row of the key, whatever it holds.
UpsertCheckpoint(tbl, k, c) == [tbl EXCEPT ![k] = RowOf(c)]

\* NewProcessor on the second node.  (wrote is history: the last step of
\* this process was a SaveCheckpoint that returned nil.)
NewPeer(k) ==
    [consumer |-> k, hostname |-> "node-b", pc |-> "run",
     cp |-> NilCheckpoint, opts |-> NoOpts, batch |-> <<>>,
     rows |-> [j \in ConsumerIDs \ {Consumer1} |-> NoRow],
     wrote |-> FALSE]

\* Two processes started on a filled events table, each for one run
\* (polling_interval 0), with no lookback.
InitPeers ==
    /\ config \in Configs
    /\ config.BatchSize > 0
    /\ config.LookbackHours = 0
    /\ config.PollingInterval = 0
    /\ table = {}
    /\ now = MaxTs
    /\ stored = NoRow
    /\ hostname = "node-a"
    /\ cp = NilCheckpoint
    /\ opts = NoOpts
    /\ batch = <<>>
    /\ pc = "run"
    /\ cancelled = FALSE
    /\ cycleErr = "none"
    /\ runErr = "none"
    /\ trace = <<>>
    /\ prev = NoPrev
    /\ committed = 0
    /\ ticker = NoTicker
    /\ sink = NoSink
    /\ \E k \in ConsumerIDs : peer = NewPeer(k)

\* Run of the second process: where it goes when processEvents returns.
PeerAfterCycle == IF config.PollingInterval = 0 THEN "exit" ELSE "wait"

\* Second process, Run: GetCheckpoint for its consumer id.
PeerLoadCheckpoint ==
    /\ peer.pc = "run"
    /\ LET got == GetCheckpoint(SelectCheckpoint(CheckpointTable, peer.consumer), TRUE)
       IN  peer' = [peer EXCEPT
                      !.cp = IF got.checkpoint = NilCheckpoint
                             THEN FreshCheckpoint(peer.hostname)
                             ELSE got.checkpoint,
                      !.pc = "cycle",
                      !.wrote = FALSE]
    /\ UNCHANGED <<config, table, now, stored, hostname, cp, opts, batch, pc,
                   cancelled, cycleErr, runErr, trace, prev, committed, ticker,
                   sink>>

\* Second process, processEvents up to the loop.
PeerStartCycle ==
    /\ peer.pc = "cycle"
    /\ peer' = [peer EXCEPT !.opts = BuildOpts(config, peer.cp, now),
                            !.batch = <<>>,
                            !.pc = "loop",
                            !.wrote = FALSE]
    /\ UNCHANGED <<config, table, now, stored, hostname, cp, opts, batch, pc,
                   cancelled, cycleErr, runErr, trace, prev, committed, ticker,
                   sink>>

\* Second process: GetEvents returns a batch; an empty batch ends the cycle.
PeerGetEvents ==
    /\ peer.pc = "loop"
    /\ \E b \in GetEvents(peer.opts, peer.cp) :
          peer' = [peer EXCEPT !.batch = b,
                               !.pc = IF Len(b) = 0 THEN PeerAfterCycle ELSE "send",
                               !.wrote = FALSE]
    /\ UNCHANGED <<config, table, now, stored, hostname, cp, opts, batch, pc,
                   cancelled, cycleErr, runErr, trace, prev, committed, ticker,
                   sink>>

\* Second process: SendEvents succeeds; its in-memory checkpoint is advanced.
PeerSendEvents ==
    /\ peer.pc = "send"
    /\ peer' = [peer EXCEPT
                  !.cp = AdvanceCheckpoint(peer.cp, peer.batch, peer.hostname),
                  !.pc = "save",
                  !.wrote = FALSE]
    /\ UNCHANGED <<config, table, now, stored, hostname, cp, opts, batch, pc,
                   cancelled, cycleErr, runErr, trace, prev, committed, ticker,
                   sink>>

\* Second process: SaveCheckpoint succeeds on the row of its consumer id.
PeerSaveCheckpoint ==
    /\ peer.pc = "save"
    /\ LET tbl == UpsertCheckpoint(CheckpointTable, peer.consumer, peer.cp)
       IN  /\ stored' = tbl[Consumer1]
           /\ peer' = [peer EXCEPT
                         !.rows = [j \in ConsumerIDs \ {Consumer1} |-> tbl[j]],
                         !.opts = IF LastPage(config, peer.batch) THEN @
                                  ELSE [@ EXCEPT !.MinEventID = "ptr", !.Offset = 0],
                         !.pc = IF LastPage(config, peer.batch)
                                THEN PeerAfterCycle ELSE "loop",
                         !.wrote = TRUE]
    /\ committed' = IF stored'.present
                    THEN Max(committed, stored'.last_event_id) ELSE committed
    /\ UNCHANGED <<config, table, now, hostname, cp, opts, batch, pc,
                   cancelled, cycleErr, runErr, trace, prev, ticker, sink>>

\* Second process: GetCheckpoint, GetEvents, SendEvents or SaveCheckpoint
\* fails.  Run returns a load error; processEvents returns the others, with
\* the in-memory checkpoint as it is.
PeerFail ==
    /\ peer.pc \in {"run", "loop", "send", "save"}
    /\ peer' = [peer EXCEPT
                  !.pc = IF peer.pc = "run" THEN "exit" ELSE PeerAfterCycle,
                  !.wrote = FALSE]
    /\ UNCHANGED <<config, table, now, stored, hostname, cp, opts, batch, pc,
                   cancelled, cycleErr, runErr, trace, prev, committed, ticker,
                   sink>>

PeerStep ==
    \/ PeerLoadCheckpoint
    \/ PeerStartCycle
    \/ PeerGetEvents
    \/ PeerSendEvents
    \/ PeerSaveCheckpoint
    \/ PeerFail

\* The upstream producer fills the events table before the two processes
\* start.
PeersInsertEvent ==
    /\ pc = "run"
    /\ peer.pc = "run"
    /\ InsertEvent

NextPeers ==
    \/ PeersInsertEvent
    \/ LoadCheckpointFail
    \/ LoadCheckpoint
    \/ StartCycle
    \/ GetEventsFail
    \/ GetEventsOk
    \/ SendEventsFail
    \/ SendEventsOk
    \/ SaveCheckpointFail
    \/ SaveCheckpointOk
    \/ PeerStep

SpecPeers == InitPeers /\ [][NextPeers]_vars

\* ------------------------------------- crash and restart, with the sink's log

\* The sink's log after batch b has been delivered.
Delivered(s, b) ==
    [s EXCEPT !.count =
        [i \in DOMAIN s.count |->
            IF \E k \in 1..Len(b) : b[k].id = i
            THEN Min(2, s.count[i] + 1)
            ELSE s.count[i]]]

\* SendEventsOk, with the delivery entered in the sink's log.
SinkSendEventsOk ==
    /\ pc = "send"
    /\ cp' = AdvanceCheckpoint(cp, batch, hostname)
    /\ trace' = Append(trace, Entry("send", batch, cp', stored, opts))
    /\ pc' = "save"
    /\ sink' = Delivered(sink, batch)
    /\ UNCHANGED <<config, table, now, stored, hostname, opts, batch,
                   cancelled, cycleErr, runErr, prev, committed, ticker, peer>>

\* The process stops or crashes at any point, and a new process is started
\* for the same consumer id (restart, or failover to the backup node): what
\* the sink has received so far was delivered by an earlier process.
Crash ==
    /\ pc # "run"
    /\ cp' = NilCheckpoint
    /\ opts' = NoOpts
    /\ batch' = <<>>
    /\ pc' = "run"
    /\ cancelled' = FALSE
    /\ cycleErr' = "none"
    /\ runErr' = "none"
    /\ trace' = <<>>
    /\ prev' = NoPrev
    /\ sink' = [sink EXCEPT !.past = { i \in DOMAIN sink.count : sink.count[i] > 0 }]
    /\ UNCHANGED <<config, table, now, stored, hostname, committed, ticker, peer>>

NextFailover ==
    \/ InsertEvent
    \/ Crash
    \/ LoadCheckpointFail
    \/ LoadCheckpoint
    \/ TickerFire
    \/ StartCycle
    \/ GetEventsFail
    \/ GetEventsOk
    \/ SendEventsFail
    \/ SinkSendEventsOk
    \/ SaveCheckpointFail
    \/ SaveCheckpointOk

SpecFailover == InitRun /\ [][NextFailover]_vars

\* ---------------------------------------------- a three-event walk-through

\* Three events with ids 5, 6, 7, ascending in id and timestamp.
ScenarioTable == { [id |-> 5, ts |-> 5], [id |-> 6, ts |-> 6], [id |-> 7, ts |-> 7] }

\* No checkpoint row, lookback 0, batch size 2, the three events in the table.
InitScenario ==
    /\ config \in Configs
    /\ config.BatchSize = 2
    /\ config.LookbackHours = 0
    /\ table = ScenarioTable
    /\ now = MaxTs
    /\ stored = NoRow
    /\ hostname \in Hostnames
    /\ cp = NilCheckpoint
    /\ opts = NoOpts
    /\ batch = <<>>
    /\ pc = "run"
    /\ cancelled = FALSE
    /\ cycleErr = "none"
    /\ runErr = "none"
    /\ trace = <<>>
    /\ prev = NoPrev
    /\ committed = 0
    /\ ticker = NoTicker
    /\ sink = NoSink
    /\ peer = NoPeer

NextScenario ==
    \/ Restart
    \/ LoadCheckpointFail
    \/ LoadCheckpoint
    \/ TickerFire
    \/ StartCycle
    \/ GetEventsFail
    \/ GetEventsOk
    \/ SendEventsFail
    \/ SendEventsOk
    \/ SaveCheckpointFail
    \/ SaveCheckpointOk

SpecScenario == InitScenario /\ [][NextScenario]_vars

\* ------------------------------------- failure-free runs, with the sink's log

\* One process in which no call fails, nothing is cancelled and nothing
\* crashes; the producer inserts rows with any timestamps.
\* The producer inserts a row while the process waits for its ticker: the
\* next cycle starts on a table that already holds it.
InsertBetweenCycles ==
    /\ pc = "wait"
    /\ \E id \in 1..MaxId, ts \in 1..MaxTs :
          /\ \A e \in table : e.id < id
          /\ table' = table \cup {[id |-> id, ts |-> ts]}
    /\ UNCHANGED <<config, now, stored, hostname, cp, opts, batch, pc,
                   cancelled, cycleErr, runErr, trace, prev, committed, ticker, sink, peer>>

NextOrder ==
    \/ InsertEvent
    \/ InsertBetweenCycles
    \/ LoadCheckpoint
    \/ TickerFire
    \/ StartCycle
    \/ GetEventsOk
    \/ SinkSendEventsOk
    \/ SaveCheckpointOk

SpecOrder == InitRun /\ [][NextOrder]_vars

\* ------------------------------------------- actor e-mail enrichment alone

\* SQL values: NULL, or a text value.
Null == [null |-> TRUE, v |-> ""]
Val(x) == [null |-> FALSE, v |-> x]

\* Values of email_enrichment.source; the last one is not a known tag.
Sources ==
    {"auto", "idp_okta_users", "netbird_users", "custom", "none", "unknown_source"}

EnrichConfigs == [Enabled : BOOLEAN, Source : Sources]

\* GetSource that returns the configured tag even when enrichment is off.
GetSource_IgnoresEnabled(conf) == conf.Source

\* EmailEnrichmentConfig.GetSource
GetSource(conf) == IF ~conf.Enabled THEN "none" ELSE conf.Source

\* Columns the query can select: of the events row (e.initiator_id or
\* e.target_id) and of the joined user tables.
ActorId == [t |-> "e", c |-> "id"]
OktaEmail == [t |-> "okta", c |-> "email"]
NetbirdEmail == [t |-> "netbird", c |-> "email"]
NetbirdName == [t |-> "netbird", c |-> "name"]
CustomEmail == [t |-> "custom", c |-> "email"]

\* The query with the auto and default shapes reduced to the first table.
buildEmailEnrichmentQuery_FirstTableOnly(src) ==
    CASE src = "idp_okta_users" ->
            [coalesce |-> <<OktaEmail, ActorId>>, joins |-> {"okta"}]
      [] src = "netbird_users" ->
            [coalesce |-> <<NetbirdEmail, NetbirdName, ActorId>>, joins |-> {"netbird"}]
      [] src = "custom" ->
            [coalesce |-> <<CustomEmail, ActorId>>, joins |-> {"custom"}]
      [] src = "none" ->
            [coalesce |-> <<ActorId>>, joins |-> {}]
      [] OTHER ->
            [coalesce |-> <<OktaEmail, ActorId>>, joins |-> {"okta"}]

\* buildEmailEnrichmentQuery: for the source tag, the COALESCE list that
\* gives initiator_email (and, with the target's joins, target_email) and
\* the tables LEFT JOINed on the actor id.  "auto" and the default branch
\* build the same query; "none" selects the actor id and joins nothing.
buildEmailEnrichmentQuery(src) ==
    CASE src = "idp_okta_users" ->
            [coalesce |-> <<OktaEmail, ActorId>>, joins |-> {"okta"}]
      [] src = "netbird_users" ->
            [coalesce |-> <<NetbirdEmail, NetbirdName, ActorId>>, joins |-> {"netbird"}]
      [] src = "custom" ->
            [coalesce |-> <<CustomEmail, ActorId>>, joins |-> {"custom"}]
      [] src = "auto" ->
            [coalesce |-> <<OktaEmail, NetbirdEmail, NetbirdName, ActorId>>,
             joins |-> {"okta", "netbird"}]
      [] src = "none" ->
            [coalesce |-> <<ActorId>>, joins |-> {}]
      [] OTHER ->
            [coalesce |-> <<OktaEmail, NetbirdEmail, NetbirdName, ActorId>>,
             joins |-> {"okta", "netbird"}]

\* LEFT JOIN t ON actor = t.id: the row of t with that id, or a row of NULLs
\* when there is none (a NULL actor id equals nothing).
LeftJoin(dir, actor) ==
    IF ~actor.null /\ \E r \in dir : r.id = actor.v
    THEN CHOOSE r \in dir : r.id = actor.v
    ELSE [id |-> "", email |-> Null, name |-> Null]

\* The value of a selected column for one actor; dirs are the user tables.
ColumnValue(ref, actor, dirs) ==
    IF ref.t = "e" THEN actor ELSE LeftJoin(dirs[ref.t], actor)[ref.c]

\* COALESCE: the first value that is not NULL, NULL when all are.
Coalesce(vals) ==
    IF \A i \in 1..Len(vals) : vals[i].null THEN Null
    ELSE vals[CHOOSE i \in 1..Len(vals) :
                 ~vals[i].null /\ \A j \in 1..(i - 1) : vals[j].null]

\* Scan into a plain string: database/sql rejects a NULL.
Scan_PlainString(v) ==
    IF v.null THEN [err |-> "scan", s |-> ""] ELSE [err |-> "nil", s |-> v.v]

\* GetEvents: rows.Scan into sql.NullString, then "if x.Valid { f = x.String }":
\* a NULL leaves the field empty.
Scan(v) == [err |-> "nil", s |-> IF v.null THEN "" ELSE v.v]

\* The user tables: each holds no row or one row for user "u1"; "u2" is in
\* none of them.  An e-mail is NULL, empty or an address; a name is NULL or
\* a text.
Emails == {Null, Val(""), Val("a@example.com"), Val("b@example.com")}
Names == {Null, Val("User One")}
Directories ==
    {{}} \cup { {[id |-> "u1", email |-> e, name |-> n]} : e \in Emails, n \in Names }
Actors == {Null, Val("u1"), Val("u2")}

\* History of one GetEvents call on a table holding one event: the
\* enrichment configuration, the event's initiator and target ids, the
\* user tables, the query built, and the error and the two display fields
\* returned.
EnrichCall(conf, initiator, target, dirs) ==
    LET q == buildEmailEnrichmentQuery(GetSource(conf))
        ie == Scan(Coalesce([i \in 1..Len(q.coalesce) |->
                               ColumnValue(q.coalesce[i], initiator, dirs)]))
        te == Scan(Coalesce([i \in 1..Len(q.coalesce) |->
                               ColumnValue(q.coalesce[i], target, dirs)]))
    IN  [op |-> "enrich", conf |-> conf, initiator |-> initiator,
         target |-> target, dirs |-> dirs, joins |-> q.joins,
         err |-> IF ie.err # "nil" THEN ie.err ELSE te.err,
         InitiatorEmail |-> ie.s, TargetEmail |-> te.s]

\* One event in the events table, some enrichment configuration and some
\* user tables; GetEvents has not been called yet.
InitEnrich ==
    /\ config = [BatchSize |-> 1, LookbackHours |-> 0, PollingInterval |-> 0]
    /\ table = {}
    /\ now = MaxTs
    /\ stored = NoRow
    /\ hostname = "node-a"
    /\ cp = NilCheckpoint
    /\ opts = NoOpts
    /\ batch = <<>>
    /\ pc = "run"
    /\ cancelled = FALSE
    /\ cycleErr = "none"
    /\ runErr = "none"
    /\ \E conf \in EnrichConfigs, initiator \in Actors, target \in Actors,
          okta \in Directories, netbird \in Directories, custom \in Directories :
          trace = <<[op |-> "event", conf |-> conf, initiator |-> initiator,
                     target |-> target,
                     dirs |-> [okta |-> okta, netbird |-> netbird, custom |-> custom]]>>
    /\ prev = NoPrev
    /\ committed = 0
    /\ ticker = NoTicker
    /\ sink = NoSink
    /\ peer = NoPeer

\* GetEvents is called for the event.
EnrichEvent ==
    /\ trace[1].op = "event"
    /\ trace' = <<EnrichCall(trace[1].conf, trace[1].initiator, trace[1].target,
                             trace[1].dirs)>>
    /\ UNCHANGED <<config, table, now, stored, hostname, cp, opts, batch, pc,
                   cancelled, cycleErr, runErr, prev, committed, ticker, sink, peer>>

NextEnrich == EnrichEvent

SpecEnrich == InitEnrich /\ [][NextEnrich]_vars

\* ------------------------------------------------- rows with NULL columns

\* The nullable text columns of a result row of GetEvents' query, and the
\* fields of events.Event they are copied to.
NullableColumns ==
    [initiator_id |-> "InitiatorID", target_id |-> "TargetID",
     account_id |-> "AccountID", meta |-> "Meta",
     initiator_email |-> "InitiatorEmail", target_email |-> "TargetEmail"]

\* GetEvents, "Parse results": rows.Scan of one row, then the copy of each
\* valid column; the error is that of the first column whose scan fails.
ScanEvent(row) ==
    LET cols == DOMAIN NullableColumns
        bad == { c \in cols : Scan(row[c]).err # "nil" }
    IN  [err |-> IF bad = {} THEN "nil" ELSE "scan",
         event |-> [id |-> row.id, ts |-> row.ts,
                    InitiatorID |-> Scan(row.initiator_id).s,
                    TargetID |-> Scan(row.target_id).s,
                    AccountID |-> Scan(row.account_id).s,
                    Meta |-> Scan(row.meta).s,
                    InitiatorEmail |-> Scan(row.initiator_email).s,
                    TargetEmail |-> Scan(row.target_email).s]]

\* One event in the table, each of its nullable columns NULL or a text.
InitNulls ==
    /\ config \in Configs
    /\ config.LookbackHours = 0
    /\ \E r \in [initiator_id : {Null, Val("u1")}, target_id : {Null, Val("u2")},
                  account_id : {Null, Val("acc")}, meta : {Null, Val("{}")},
                  initiator_email : {Null, Val("a@example.com")},
                  target_email : {Null, Val("b@example.com")},
                  id : {1}, ts : {1}] :
          table = {r}
    /\ now = MaxTs
    /\ stored = NoRow
    /\ hostname = "node-a"
    /\ cp = NilCheckpoint
    /\ opts = NoOpts
    /\ batch = <<>>
    /\ pc = "run"
    /\ cancelled = FALSE
    /\ cycleErr = "none"
    /\ runErr = "none"
    /\ trace = <<>>
    /\ prev = NoPrev
    /\ committed = 0
    /\ ticker = NoTicker
    /\ sink = NoSink
    /\ peer = NoPeer

\* GetEvents with the scan of each returned row: the query succeeds, a
\* failed scan makes GetEvents return the error, else the batch is the
\* scanned records.
ScanGetEvents ==
    /\ pc = "loop"
    /\ ~cancelled
    /\ \E rows \in GetEvents(opts, cp) :
          LET scanned == [i \in 1..Len(rows) |-> ScanEvent(rows[i])]
              b == [i \in 1..Len(rows) |-> scanned[i].event]
          IN  IF \E i \in 1..Len(rows) : scanned[i].err # "nil"
              THEN /\ trace' = Append(trace, Entry("fetch_err", <<>>, cp, stored, opts))
                   /\ AfterCycle("fetch")
                   /\ prev' = NoPrev
                   /\ UNCHANGED batch
              ELSE /\ batch' = b
                   /\ trace' = Append(trace, Entry("fetch", b, cp, stored, opts))
                   /\ IF Len(b) = 0
                      THEN /\ AfterCycle("nil")
                           /\ prev' = NoPrev
                      ELSE /\ pc' = "send"
                           /\ UNCHANGED <<cycleErr, runErr, prev>>
    /\ UNCHANGED <<config, table, now, stored, hostname, cp, opts,
                   cancelled, committed, ticker, sink, peer>>

NextNulls ==
    \/ LoadCheckpoint
    \/ TickerFire
    \/ StartCycle
    \/ ScanGetEvents
    \/ SendEventsFail
    \/ SendEventsOk
    \/ SaveCheckpointFail
    \/ SaveCheckpointOk

SpecNulls == InitNulls /\ [][NextNulls]_vars

\* ----------------------------------------- the statements GetEvents builds

\* A nil *int, *int64 (a nil *time.Time is NilTime).
NilInt == [nil |-> TRUE]

\* events.EventQueryOptions as a caller may fill it in.
QueryOptions ==
    [AccountID : {"", "account_1"},
     StartTime : {NilTime, [nil |-> FALSE, t |-> 1], [nil |-> FALSE, t |-> 2]},
     EndTime : {NilTime, [nil |-> FALSE, t |-> 1], [nil |-> FALSE, t |-> 2]},
     Activity : {NilInt, [nil |-> FALSE, v |-> 1], [nil |-> FALSE, v |-> 2]},
     MinEventID : {NilInt, [nil |-> FALSE, v |-> 0], [nil |-> FALSE, v |-> 1]},
     Limit : {0, 1, 2},
     Offset : {0, 1},
     OrderAsc : BOOLEAN]

\* Rows of the events table with the columns the filters read.
QueryRows ==
    { [id |-> 1, ts |-> 1, account_id |-> "account_1", activity |-> 1],
      [id |-> 2, ts |-> 2, account_id |-> "account_1", activity |-> 2],
      [id |-> 3, ts |-> 2, account_id |-> "account_2", activity |-> 1] }

\* A statement under construction: conditions, args and argPos.
NoFilters == [conditions |-> <<>>, args |-> <<>>, argPos |-> 1]

\* "if <present> { conditions = append(conditions, "<col> <op> $argPos");
\*   args = append(args, <v>); argPos++ }"
AddFilter(q, present, col, op, opt, v) ==
    IF present
    THEN [conditions |-> Append(q.conditions, [col |-> col, op |-> op, pos |-> q.argPos]),
          args |-> Append(q.args, [opt |-> opt, v |-> v]),
          argPos |-> q.argPos + 1]
    ELSE q

\* The filters of GetEvents with the minimum id placed before the activity.
GetEventsFilters_MinIdFirst(o) ==
    LET q1 == AddFilter(NoFilters, o.AccountID # "", "account_id", "=",
                        "AccountID", o.AccountID)
        q2 == AddFilter(q1, ~o.StartTime.nil, "timestamp", ">=",
                        "StartTime", IF o.StartTime.nil THEN 0 ELSE o.StartTime.t)
        q3 == AddFilter(q2, ~o.EndTime.nil, "timestamp", "<=",
                        "EndTime", IF o.EndTime.nil THEN 0 ELSE o.EndTime.t)
        q4 == AddFilter(q3, ~o.MinEventID.nil, "id", ">",
                        "MinEventID", IF o.MinEventID.nil THEN 0 ELSE o.MinEventID.v)
    IN  AddFilter(q4, ~o.Activity.nil, "activity", "=",
                  "Activity", IF o.Activity.nil THEN 0 ELSE o.Activity.v)

\* GetEvents, "Add filters": the conditions and their args, in code order.
GetEventsFilters(o) ==
    LET q1 == AddFilter(NoFilters, o.AccountID # "", "account_id", "=",
                        "AccountID", o.AccountID)
        q2 == AddFilter(q1, ~o.StartTime.nil, "timestamp", ">=",
                        "StartTime", IF o.StartTime.nil THEN 0 ELSE o.StartTime.t)
        q3 == AddFilter(q2, ~o.EndTime.nil, "timestamp", "<=",
                        "EndTime", IF o.EndTime.nil THEN 0 ELSE o.EndTime.t)
        q4 == AddFilter(q3, ~o.Activity.nil, "activity", "=",
                        "Activity", IF o.Activity.nil THEN 0 ELSE o.Activity.v)
    IN  AddFilter(q4, ~o.MinEventID.nil, "id", ">",
                  "MinEventID", IF o.MinEventID.nil THEN 0 ELSE o.MinEventID.v)

\* GetEvents: the whole statement, WHERE ... ORDER BY e.timestamp ...
\* LIMIT $argPos OFFSET $argPos+1, and the args passed to QueryContext.
GetEventsStatement(o) ==
    LET q == GetEventsFilters(o)
    IN  [conditions |-> q.conditions,
         orderAsc |-> o.OrderAsc,
         limitPos |-> q.argPos,
         offsetPos |-> q.argPos + 1,
         args |-> q.args \o << [opt |-> "Limit", v |-> EffectiveLimit(o)],
                               [opt |-> "Offset", v |-> o.Offset] >>]

\* GetEventCount: SELECT COUNT(*) FROM events WHERE ..., and its args.
GetEventCountStatement(o) ==
    LET q1 == AddFilter(NoFilters, o.AccountID # "", "account_id", "=",
                        "AccountID", o.AccountID)
        q2 == AddFilter(q1, ~o.StartTime.nil, "timestamp", ">=",
                        "StartTime", IF o.StartTime.nil THEN 0 ELSE o.StartTime.t)
        q3 == AddFilter(q2, ~o.EndTime.nil, "timestamp", "<=",
                        "EndTime", IF o.EndTime.nil THEN 0 ELSE o.EndTime.t)
        q4 == AddFilter(q3, ~o.Activity.nil, "activity", "=",
                        "Activity", IF o.Activity.nil THEN 0 ELSE o.Activity.v)
    IN  [conditions |-> q4.conditions, args |-> q4.args]

\* The column a condition reads, in a row.
ColumnOf(row, col) ==
    CASE col = "account_id" -> row.account_id
      [] col = "timestamp" -> row.ts
      [] col = "activity" -> row.activity
      [] col = "id" -> row.id

\* A row satisfies the condition "<col> <op> $pos" under the args.
Satisfies(row, cond, args) ==
    LET a == args[cond.pos].v
        x == ColumnOf(row, cond.col)
    IN  CASE cond.op = "=" -> x = a
          [] cond.op = ">=" -> x >= a
          [] cond.op = "<=" -> x <= a
          [] cond.op = ">" -> x > a

\* The rows of a table a WHERE clause (the conjunction of its conditions)
\* selects.
Selected(rows, conditions, args) ==
    { r \in rows : \A i \in 1..Len(conditions) : Satisfies(r, conditions[i], args) }

\* Some options; no statement has been built yet.
InitQuery ==
    /\ config = [BatchSize |-> 1, LookbackHours |-> 0, PollingInterval |-> 0]
    /\ table = {}
    /\ now = MaxTs
    /\ stored = NoRow
    /\ hostname = "node-a"
    /\ cp = NilCheckpoint
    /\ opts = NoOpts
    /\ batch = <<>>
    /\ pc = "run"
    /\ cancelled = FALSE
    /\ cycleErr = "none"
    /\ runErr = "none"
    /\ \E o \in QueryOptions : trace = <<[op |-> "opts", opts |-> o]>>
    /\ prev = NoPrev
    /\ committed = 0
    /\ ticker = NoTicker
    /\ sink = NoSink
    /\ peer = NoPeer

\* GetEvents(opts) on QueryRows: the statement built and the rows of its
\* WHERE clause.
QueryGetEvents ==
    /\ trace[1].op = "opts"
    /\ LET st == GetEventsStatement(trace[1].opts)
       IN  trace' = <<[op |-> "GetEvents", opts |-> trace[1].opts, statement |-> st,
                       matched |-> Selected(QueryRows, st.conditions, st.args)]>>
    /\ UNCHANGED <<config, table, now, stored, hostname, cp, opts, batch, pc,
                   cancelled, cycleErr, runErr, prev, committed, ticker, sink, peer>>

\* GetEventCount(opts) on QueryRows: the statement built and the count.
QueryGetEventCount ==
    /\ trace[1].op = "opts"
    /\ LET st == GetEventCountStatement(trace[1].opts)
       IN  trace' = <<[op |-> "GetEventCount", opts |-> trace[1].opts, statement |-> st,
                       count |-> Cardinality(Selected(QueryRows, st.conditions, st.args))]>>
    /\ UNCHANGED <<config, table, now, stored, hostname, cp, opts, batch, pc,
                   cancelled, cycleErr, runErr, prev, committed, ticker, sink, peer>>

NextQuery ==
    \/ QueryGetEvents
    \/ QueryGetEventCount

SpecQuery == InitQuery /\ [][NextQuery]_vars

\* ------------------------------------------------- the stdout reference sink

\* The records of batch b that are not in the set bad of ids, in batch order.
Written(b, bad) == SelectSeq(b, LAMBDA e : e.id \notin bad)

\* StdoutWriter.SendEvents that returns the first serialization error.
StdoutSendEvents_FailsBatch ==
    /\ pc = "send"
    /\ \E bad \in SUBSET { batch[k].id : k \in 1..Len(batch) } :
          IF bad = {}
          THEN /\ cp' = AdvanceCheckpoint(cp, batch, hostname)
               /\ trace' = Append(trace,
                     [op |-> "send", batch |-> batch, cp |-> cp', stored |-> stored,
                      opts |-> opts, table |-> {}, written |-> batch])
               /\ pc' = "save"
               /\ sink' = Delivered(sink, batch)
               /\ UNCHANGED <<cycleErr, runErr, prev>>
          ELSE /\ trace' = Append(trace, Entry("send_err", batch, cp, stored, opts))
               /\ AfterCycle("send")
               /\ prev' = Ended("send", batch)
               /\ UNCHANGED <<cp, sink>>
    /\ UNCHANGED <<config, table, now, stored, hostname, opts, batch,
                   cancelled, committed, ticker, peer>>

\* processEvents with StdoutWriter as the sink: SendEvents prints one line
\* per record; a record whose eventToJSON fails (those of bad) is logged
\* and skipped; SendEvents returns nil, and the in-memory checkpoint is
\* advanced over the whole batch.  (written is history: the lines printed.)
StdoutSendEvents ==
    /\ pc = "send"
    /\ cp' = AdvanceCheckpoint(cp, batch, hostname)
    /\ \E bad \in SUBSET { batch[k].id : k \in 1..Len(batch) } :
          /\ trace' = Append(trace,
                [op |-> "send", batch |-> batch, cp |-> cp', stored |-> stored,
                 opts |-> opts, table |-> {}, written |-> Written(batch, bad)])
          /\ sink' = Delivered(sink, Written(batch, bad))
    /\ pc' = "save"
    /\ UNCHANGED <<config, table, now, stored, hostname, opts, batch,
                   cancelled, cycleErr, runErr, prev, committed, ticker, peer>>

NextStdout ==
    \/ InsertEvent
    \/ LoadCheckpoint
    \/ TickerFire
    \/ StartCycle
    \/ GetEventsFail
    \/ GetEventsOk
    \/ StdoutSendEvents
    \/ SaveCheckpointFail
    \/ SaveCheckpointOk

SpecStdout == InitRun /\ [][NextStdout]_vars

\* ------------------------------------ the running total, with its history

\* LoadCheckpoint, with the total the process starts from entered in the
\* history.
CountedLoadCheckpoint ==
    /\ pc = "run"
    /\ LET got == GetCheckpoint(stored, TRUE)
       IN  /\ cp' = IF got.checkpoint = NilCheckpoint
                     THEN FreshCheckpoint(hostname)
                     ELSE got.checkpoint
           /\ sink' = [sink EXCEPT
                          !.loaded = IF stored.present
                                     THEN stored.total_events_processed
                                     ELSE 0,
                          !.sent = 0]
    /\ pc' = "cycle"
    /\ UNCHANGED <<config, table, now, stored, hostname, opts, batch,
                   cancelled, cycleErr, runErr, trace, prev, committed, ticker, peer>>

\* SendEventsOk, with the records of the delivered batch counted in the
\* history.
CountedSendEventsOk ==
    /\ pc = "send"
    /\ cp' = AdvanceCheckpoint(cp, batch, hostname)
    /\ trace' = Append(trace, Entry("send", batch, cp', stored, opts))
    /\ pc' = "save"
    /\ sink' = [sink EXCEPT !.sent = @ + Len(batch)]
    /\ UNCHANGED <<config, table, now, stored, hostname, opts, batch,
                   cancelled, cycleErr, runErr, prev, committed, ticker, peer>>

NextTotals ==
    \/ InsertEvent
    \/ Restart
    \/ LoadCheckpointFail
    \/ CountedLoadCheckpoint
    \/ TickerFire
    \/ StartCycle
    \/ GetEventsFail
    \/ GetEventsOk
    \/ SendEventsFail
    \/ CountedSendEventsOk
    \/ SaveCheckpointFail
    \/ SaveCheckpointOk

SpecTotals == InitRun /\ [][NextTotals]_vars

\* ------------------------------------------------------------------ claims

\* The cycle of the history has returned (the next one has not yet begun).
CycleOver == pc \in {"wait", "exit"}

\* C1: when SendEvents returns an error, processEvents returns an error
\* with no further fetch or save in that cycle, and the in-memory and the
\* stored checkpoint are what they were just before the delivery attempt.
C1_SinkErrorAborts ==
    \A i \in 1..Len(trace) :
        trace[i].op = "send_err" =>
            /\ i = Len(trace)
            /\ CycleOver
            /\ cycleErr = "send"
            /\ cp = trace[i-1].cp
            /\ stored = trace[i-1].stored

\* C1 witness: the sink has failed on the second batch of a cycle, after the
\* first batch was committed.
C1_Witness ==
    /\ Len(trace) = 6
    /\ trace[6].op = "send_err"
    /\ trace[4].op = "save"
    /\ stored.present

\* C2: every write of the checkpoint row directly follows, in the same
\* cycle, a successful SendEvents of a batch whose last record has the id
\* that is written.
C2_SaveOnlyAfterDelivery ==
    [][ (stored' # stored
          \/ (Len(trace') > Len(trace) /\ Last(trace').op = "save"))
        => /\ Len(trace) >= 3
           /\ Last(trace).op = "send"
           /\ trace[Len(trace) - 1].op = "fetch"
           /\ Last(trace).batch = trace[Len(trace) - 1].batch
           /\ Len(Last(trace).batch) >= 1
           /\ stored'.present
           /\ stored'.last_event_id = Last(Last(trace).batch).id ]_vars

\* C2 witness: a row has been written for a batch of two records.
C2_Witness ==
    /\ Len(trace) >= 4
    /\ trace[4].op = "save"
    /\ Len(trace[4].batch) = 2
    /\ stored = trace[4].stored

\* C3: after a batch of k >= 1 records is delivered and saved, the stored
\* row has the id and timestamp of the last record of the batch, the
\* in-memory total from before the delivery plus k, and the local hostname.
C3_CommittedRow ==
    \A i \in 1..Len(trace) :
        trace[i].op = "save" =>
            /\ i >= 4
            /\ trace[i-2].op = "fetch"
            /\ trace[i].batch = trace[i-2].batch
            /\ Len(trace[i].batch) >= 1
            /\ trace[i].stored.present
            /\ trace[i].stored.last_event_id = Last(trace[i].batch).id
            /\ trace[i].stored.last_event_timestamp = Last(trace[i].batch).ts
            /\ trace[i].stored.total_events_processed =
                  trace[i-2].cp.TotalEventsProcessed + Len(trace[i].batch)
            /\ trace[i].stored.processing_node = hostname
            /\ (i = Len(trace) => stored = trace[i].stored)

\* C3 witness: a batch is saved in a cycle that began with an in-memory
\* total ahead of the stored one (the previous save of this process failed).
C3_Witness ==
    /\ Len(trace) >= 4
    /\ Last(trace).op = "save"
    /\ ~trace[1].stored.present
    /\ trace[1].cp.TotalEventsProcessed > 0
    /\ stored.total_events_processed = 2

\* C4: with a single writer the stored last_event_id never decreases, and
\* a stored row never disappears.
C4_StoredIdNonDecreasing ==
    [][ stored.present =>
          /\ stored'.present
          /\ stored'.last_event_id >= stored.last_event_id ]_vars

\* C4 witness: a second commit, made in a later cycle than the first.
C4_Witness ==
    /\ Len(trace) = 4
    /\ Last(trace).op = "save"
    /\ trace[1].stored.present
    /\ stored.last_event_id > trace[1].stored.last_event_id

\* C5: once last_event_id = c has been stored, no record with id <= c is
\* delivered any more (the minimum-id bound is exclusive): every delivered
\* record has an id above the largest last_event_id ever stored.
C5_NoDeliveryAtOrBelowCommitted ==
    [][ (Len(trace') > Len(trace) /\ Last(trace').op = "send")
        => \A j \in 1..Len(Last(trace').batch) :
              Last(trace').batch[j].id > committed ]_vars

\* C5 witness: a batch is delivered in a cycle that started from a stored
\* checkpoint.
C5_Witness ==
    /\ pc = "save"
    /\ Len(trace) = 3
    /\ trace[1].stored.present
    /\ committed > 0

\* SendEvents has just returned an error.
SinkFailed == Len(trace') = Len(trace) + 1 /\ Last(trace').op = "send_err"

\* The first fetch of a cycle has just returned.
FirstFetchDone ==
    /\ pc = "loop"
    /\ Len(trace) = 1
    /\ Len(trace') = 2
    /\ trace'[2].op = "fetch"

\* The first batch of a cycle has just been delivered.
FirstBatchSent ==
    /\ pc = "send"
    /\ Len(trace) = 2
    /\ Len(trace') = 3
    /\ trace'[3].op = "send"

\* No two rows of the table have the same timestamp.
DistinctTs == \A e, f \in table : e.ts = f.ts => e = f

\* C6 as stated (for a positive batch size): if the sink fails on a batch
\* and the table does not change, the checkpoint after the cycle is the one
\* from before the cycle, and the next cycle fetches and delivers exactly
\* the same records.
C6_Original ==
    [][ config.BatchSize > 0 =>
        (/\ (SinkFailed /\ table' = trace[1].table)
              => (cp' = trace[1].cp /\ stored' = trace[1].stored)
         /\ (prev.kind = "send" /\ (~prev.tableChanged /\ prev.table = table) /\ FirstFetchDone)
              => trace'[2].batch = prev.batch
         /\ (prev.kind = "send" /\ (~prev.tableChanged /\ prev.table = table) /\ FirstBatchSent)
              => trace'[3].batch = prev.batch) ]_vars

\* C6 amended: if the sink fails on a batch, the in-memory and the stored
\* checkpoint after the cycle are the ones from just before the failed
\* delivery; and if the table has not changed since the failed fetch, that
\* fetch carried no time lower bound and timestamps are distinct, the first
\* fetch of the same process's next cycle returns the same records in the
\* same order, and they are the batch handed to the sink.
C6_RedeliveryAfterSinkFailure ==
    [][ /\ SinkFailed
            => /\ cp' = Last(trace).cp
               /\ stored' = Last(trace).stored
               /\ pc' \in {"wait", "exit"}
        /\ (/\ prev.kind = "send"
            /\ prev.table = table
            /\ ~prev.timeBound
            /\ DistinctTs
            /\ FirstFetchDone)
            => trace'[2].batch = prev.batch
        /\ (/\ prev.kind = "send"
            /\ prev.table = table
            /\ ~prev.timeBound
            /\ DistinctTs
            /\ FirstBatchSent)
            => trace'[3].batch = prev.batch ]_vars

\* C6 witness: the sink failed on the second batch of a cycle, after the
\* first was committed, and the next cycle has delivered that batch again.
C6_Witness ==
    /\ prev.kind = "send"
    /\ prev.committedBefore
    /\ prev.table = table
    /\ ~prev.timeBound
    /\ DistinctTs
    /\ pc = "save"
    /\ Len(trace) = 3
    /\ trace[3].batch = prev.batch

\* C7: when SaveCheckpoint fails the cycle aborts and the stored row is
\* exactly the row of the last successful save before it (in this cycle, or
\* else the row, if any, the cycle started with).
C7_SaveErrorKeepsRow ==
    \A i \in 1..Len(trace) :
        trace[i].op = "save_err" =>
            /\ i = Len(trace)
            /\ CycleOver
            /\ cycleErr = "save"
            /\ LET saves == { j \in 1..i : trace[j].op = "save" }
                   last == CHOOSE j \in saves : \A k \in saves : k <= j
               IN  stored = IF saves = {} THEN trace[1].stored
                            ELSE trace[last].stored

\* C7 witness: a save failed after an earlier save of the cycle succeeded.
C7_Witness ==
    /\ Len(trace) = 7
    /\ trace[7].op = "save_err"
    /\ trace[4].op = "save"
    /\ stored = trace[4].stored

\* C8 as stated: after a cycle aborted by a failed save, the next cycle
\* fetches again the batch whose save failed (here: positive batch size,
\* table unchanged, no time bound, distinct timestamps).
C8_Original ==
    [][ (/\ prev.kind = "save"
         /\ config.BatchSize > 0
         /\ prev.table = table
         /\ ~prev.timeBound
         /\ DistinctTs
         /\ FirstFetchDone)
        => trace'[2].batch = prev.batch ]_vars

\* C9: when GetEvents fails the cycle aborts at once: nothing is delivered
\* or saved after it, and the stored row and the in-memory checkpoint are
\* what they were before the fetch.
C9_FetchErrorAborts ==
    \A i \in 1..Len(trace) :
        trace[i].op = "fetch_err" =>
            /\ i = Len(trace)
            /\ CycleOver
            /\ cycleErr = "fetch"
            /\ stored = trace[i-1].stored
            /\ cp = trace[i-1].cp

\* C9 witness: the second fetch of a cycle failed after a commit.
C9_Witness ==
    /\ Len(trace) = 5
    /\ trace[5].op = "fetch_err"
    /\ trace[4].op = "save"
    /\ stored.present

\* C10 as stated: in a cycle without errors a fetch is followed by another
\* fetch exactly when it returned as many records as the page size that
\* GetEvents applied (DefaultLimit when the limit is 0).
C10_Original ==
    (CycleOver /\ cycleErr = "nil") =>
        \A i \in 1..Len(trace) :
            trace[i].op = "fetch" =>
                ((\E j \in (i+1)..Len(trace) : trace[j].op = "fetch")
                    <=> Len(trace[i].batch) = EffectiveLimit(trace[i].opts))

\* The first call of the cycle (entry 2 of its history) was a fetch.
FirstFetchMade == Len(trace) >= 2 /\ trace[2].op \in {"fetch", "fetch_err"}

\* C11 as stated: every cycle begins by loading the stored checkpoint, so
\* the first fetch of a cycle is bounded by the last_event_id of the row
\* stored when the cycle started, and by no id when no row is stored
\* (here: for a positive batch size).
C11_Original ==
    (FirstFetchMade /\ config.BatchSize > 0) =>
        IF trace[1].stored.present
        THEN /\ trace[2].opts.MinEventID = "ptr"
             /\ trace[2].cp.LastEventID = trace[1].stored.last_event_id
        ELSE trace[2].opts.MinEventID = "nil"

C13_FirstRunWindow ==
    (FirstFetchMade /\ trace[1].cp.LastEventID = 0) =>
        /\ trace[2].opts.MinEventID = "nil"
        /\ IF config.LookbackHours > 0
           THEN /\ trace[2].opts.StartTime =
                      [nil |-> FALSE, t |-> now - config.LookbackHours]
                /\ \A k \in 1..Len(trace[2].batch) :
                      trace[2].batch[k].ts >= now - config.LookbackHours
           ELSE /\ trace[2].opts.StartTime = NilTime
                /\ trace[2].op = "fetch" =>
                      Len(trace[2].batch) >=
                          Min(EffectiveLimit(trace[2].opts), Cardinality(trace[1].table))

\* C13 witness: a first fetch with a lookback returned a record while an
\* older row of the table lay outside the window.
C13_Witness ==
    /\ FirstFetchMade
    /\ trace[1].cp.LastEventID = 0
    /\ config.LookbackHours > 0
    /\ Len(trace[2].batch) >= 1
    /\ \E e \in trace[1].table : e.ts < now - config.LookbackHours

\* C14 as stated: when a checkpoint row is stored as a cycle starts (it was
\* found at load, or has been written by the process since), no fetch of
\* the cycle carries a time lower bound, whatever the row's last_event_id
\* (here: for a positive batch size).
C14_Original ==
    (Len(trace) >= 1 /\ trace[1].stored.present /\ config.BatchSize > 0) =>
        \A i \in 1..Len(trace) :
            trace[i].op \in {"fetch", "fetch_err"} => trace[i].opts.StartTime.nil

\* The process is between the start and the return of a cycle.
InCycle == pc \in {"loop", "send", "save"}

\* C15: when no row is stored at load the checkpoint is initialised in
\* memory only (id 0, count 0, nothing written); a row that is absent comes
\* into being only by the save that follows a successful delivery of a
\* non-empty batch; and a cycle whose first fetch returns no events leaves
\* the store as it was.
C15_NoRowBeforeFirstDelivery ==
    [][ /\ (pc = "run" /\ pc' = "cycle" /\ ~stored.present)
            => /\ cp'.LastEventID = 0
               /\ cp'.TotalEventsProcessed = 0
               /\ cp' = FreshCheckpoint(hostname)
               /\ ~stored'.present
        /\ (~stored.present /\ stored'.present)
            => /\ pc = "save"
               /\ Last(trace).op = "send"
               /\ Len(Last(trace).batch) >= 1
        /\ (pc = "loop" /\ Len(trace) = 1 /\ Len(trace') = 2
              /\ trace'[2].op = "fetch" /\ Len(trace'[2].batch) = 0)
            => /\ stored' = trace[1].stored
               /\ pc' \in {"wait", "exit"}
               /\ cycleErr' = "nil" ]_vars

\* C15 witness: a process that found no row has run a cycle that fetched
\* nothing, and there is still no row.
C15_Witness ==
    /\ CycleOver
    /\ cycleErr = "nil"
    /\ Len(trace) = 2
    /\ cp = FreshCheckpoint(hostname)
    /\ ~stored.present
    /\ table # {}

\* The scheduling of Run, as a property of each step: the first cycle
\* follows the load at once; a cycle starts only after the load or on the
\* receipt of a tick, and never while a cycle is in progress; with
\* polling_interval 0 the end of the cycle is the return of Run with the
\* cycle's result, and with a positive interval it is followed by a wait.
ScheduleStep ==
    /\ (pc = "run" /\ pc' # "run")
        => (pc' = "cycle" \/ (pc' = "exit" /\ runErr' = "load"))
    /\ (pc' = "cycle" /\ pc # "cycle")
        => \/ pc = "run"
           \/ /\ pc = "wait"
              /\ config.PollingInterval > 0
              /\ ticker.pending = 1
              /\ ticker'.pending = 0
    /\ (pc = "cycle" /\ pc' # "cycle") => (pc' = "loop" /\ Len(trace') = 1)
    /\ (Len(trace') = 1 /\ trace' # trace) => (pc = "cycle" /\ ~InCycle)
    /\ (InCycle /\ ~InCycle')
        => IF config.PollingInterval = 0
           THEN pc' = "exit" /\ runErr' = cycleErr' /\ cycleErr' # "none"
           ELSE pc' = "wait" /\ runErr' = "none"
    /\ (pc = "wait" /\ pc' # "wait")
        => (pc' = "cycle" \/ (pc' = "exit" /\ cancelled /\ runErr' = "ctx"))
    /\ pc = "exit" => pc' = "exit"

\* The timer of the ticker has just fired.
TimerFired == pc' = pc /\ ticker' # ticker /\ ticker'.pending = 1

\* C16 as stated: the scheduling above, with one further cycle for every
\* tick of the timer (so no tick is lost).
C16_Original ==
    [][ /\ ScheduleStep
        /\ TimerFired => ~ticker'.dropped ]_vars

\* C16 amended: the scheduling above, with one further cycle for every tick
\* received from ticker.C; the channel holds one tick, and a tick that fires
\* while one is held (during a cycle) is dropped.
C16_Schedule ==
    [][ /\ ScheduleStep
        /\ TimerFired
            => /\ ticker.pending = 0 => ticker' = [ticker EXCEPT !.pending = 1]
               /\ ticker.pending = 1 => ticker'.dropped
        /\ ticker'.pending \in {0, 1} ]_vars

\* C16 witness: two ticks fired during a cycle; one is held for the next
\* cycle and one was dropped.
C16_Witness ==
    /\ pc = "wait"
    /\ Len(trace) >= 4
    /\ ticker.pending = 1
    /\ ticker.dropped

\* C17 as stated: with a positive polling interval Run does not return
\* because of a fetch, delivery or checkpoint-store failure (it returns
\* only on cancellation).
C17_Original ==
    (config.PollingInterval > 0 /\ pc = "exit") => runErr = "ctx"

C19_GetCheckpoint ==
    (trace # <<>> /\ trace[1].op = "load") =>
        /\ stored = trace[1].before
        /\ trace[1].err \in {"nil", "query"}
        /\ trace[1].err = "query" => trace[1].checkpoint = NilCheckpoint
        /\ trace[1].err = "nil" =>
              IF stored.present
              THEN /\ trace[1].checkpoint # NilCheckpoint
                   /\ trace[1].checkpoint.LastEventID = stored.last_event_id
                   /\ trace[1].checkpoint.LastEventTimestamp = stored.last_event_timestamp
                   /\ trace[1].checkpoint.TotalEventsProcessed = stored.total_events_processed
                   /\ trace[1].checkpoint.ProcessingNode = stored.processing_node
              ELSE trace[1].checkpoint = NilCheckpoint
        /\ trace[1].err = "query" <=> ~trace[1].ok

\* C19 witness: a load found no row and returned nil without an error.
C19_Witness ==
    /\ trace # <<>>
    /\ trace[1].op = "load"
    /\ ~stored.present
    /\ trace[1].err = "nil"
    /\ trace[1].checkpoint = NilCheckpoint
    /\ now = MaxNow

\* A save of checkpoint c has just succeeded on a row that already held c.
SavedAgain ==
    /\ trace # <<>>
    /\ trace[1].op = "save"
    /\ trace[1].err = "nil"
    /\ trace[1].before.present
    /\ Columns(trace[1].before) = RowOf(trace[1].arg)

\* After a successful save of c a load returns c's four fields, whether or
\* not a row existed before; a failed save leaves the row as it was.
SaveThenLoad ==
    (trace # <<>> /\ trace[1].op = "save") =>
        IF trace[1].err = "nil"
        THEN /\ GetCheckpoint(stored, TRUE) =
                    [err |-> "nil", checkpoint |-> trace[1].arg]
             /\ Columns(stored) = RowOf(trace[1].arg)
        ELSE stored = trace[1].before

\* C20 as stated: SaveThenLoad, and saving a checkpoint on a row that holds
\* it already leaves the row as it was.
C20_Original ==
    /\ SaveThenLoad
    /\ SavedAgain => stored = trace[1].before

\* C20 amended: SaveThenLoad, and saving a checkpoint on a row that holds it
\* already changes nothing but updated_at, which becomes the time of the
\* save; created_at stays that of the first insert.
C20_IdempotentUpsert ==
    /\ SaveThenLoad
    /\ SavedAgain =>
          /\ stored = [trace[1].before EXCEPT !.updated_at = trace[1].at]
          /\ stored.created_at = trace[1].before.created_at
    /\ (trace # <<>> /\ trace[1].op = "save" /\ trace[1].err = "nil"
          /\ ~trace[1].before.present)
        => (stored.created_at = trace[1].at /\ stored.updated_at = trace[1].at)

\* C20 witness: the same checkpoint was saved a second time, later than the
\* first.
C20_Witness ==
    /\ SavedAgain
    /\ stored.updated_at > stored.created_at
    /\ stored.updated_at > trace[1].before.updated_at

\* C21: with two processes on one consumer id a SaveCheckpoint that returns
\* nil has replaced the row by the writer's checkpoint, whatever the row
\* held (the later write wins); C21_Witness is the state this allows, the
\* stored last_event_id below one stored before.
C21_LastWriteWins ==
    [][/\ (peer' # peer /\ peer'.wrote)
           => CheckpointTable'[peer.consumer] = RowOf(peer.cp)
       /\ (Len(trace') = Len(trace) + 1 /\ Last(trace').op = "save")
           => stored' = RowOf(cp)]_vars

\* Both processes run as Consumer1 and the row now holds a smaller
\* last_event_id than was stored before.
C21_Witness ==
    /\ peer.pc # "off"
    /\ peer.consumer = Consumer1
    /\ stored.present
    /\ stored.last_event_id < committed

OrderedTable == \A e, f \in table : e.id < f.id => e.ts < f.ts

\* C23 (as stated): after a stop or crash at any point, the new process that
\* loads the persisted checkpoint delivers no event that an earlier process
\* has delivered.
C23_Original ==
    OrderedTable =>
        \A i \in 1..Len(trace) :
            trace[i].op = "send" =>
                \A k \in 1..Len(trace[i].batch) :
                    trace[i].batch[k].id \notin sink.past

\* The events the sink has received that the persisted checkpoint does not
\* cover.
Uncovered ==
    { i \in DOMAIN sink.count :
        sink.count[i] > 0 /\ (stored.present => i > stored.last_event_id) }

\* C24 (as stated): at any moment at most batch_size delivered events are
\* not covered by the persisted checkpoint.
C24_Original ==
    (OrderedTable /\ config.BatchSize > 0) =>
        Cardinality(Uncovered) <= config.BatchSize

\* The calls of the walk-through cycle, in order, with the batch each
\* carries and where processEvents stands after each.
ScenarioCalls ==
    LET b1 == << [id |-> 5, ts |-> 5], [id |-> 6, ts |-> 6] >>
        b2 == << [id |-> 7, ts |-> 7] >>
    IN  << [op |-> "start", batch |-> <<>>, pc |-> {"loop"}],
           [op |-> "fetch", batch |-> b1, pc |-> {"send"}],
           [op |-> "send", batch |-> b1, pc |-> {"save"}],
           [op |-> "save", batch |-> b1, pc |-> {"loop"}],
           [op |-> "fetch", batch |-> b2, pc |-> {"send"}],
           [op |-> "send", batch |-> b2, pc |-> {"save"}],
           [op |-> "save", batch |-> b2, pc |-> {"wait", "exit"}] >>

\* C25: a cycle that starts with no checkpoint row on the table with ids
\* 5, 6, 7 (batch size 2, lookback 0) and in which no call fails makes the
\* calls of ScenarioCalls and no other: two fetches, the first without a
\* minimum id and the second with minimum id 6, deliveries [5,6] and [7],
\* rows (6, total 2) and (7, total 3), and then it returns nil.
C25_Scenario ==
    (/\ trace # <<>>
     /\ ~trace[1].stored.present
     /\ trace[1].cp.LastEventID = 0
     /\ Last(trace).op \in {"start", "fetch", "send", "save"}) =>
        /\ Len(trace) <= Len(ScenarioCalls)
        /\ pc \in ScenarioCalls[Len(trace)].pc
        /\ \A i \in 1..Len(trace) :
              /\ trace[i].op = ScenarioCalls[i].op
              /\ trace[i].batch = ScenarioCalls[i].batch
        /\ Len(trace) >= 2 => trace[2].opts.MinEventID = "nil"
        /\ Len(trace) >= 4 =>
              /\ trace[4].stored.last_event_id = 6
              /\ trace[4].stored.total_events_processed = 2
        /\ Len(trace) >= 5 =>
              /\ trace[5].opts.MinEventID = "ptr"
              /\ trace[5].cp.LastEventID = 6
        /\ Len(trace) = 7 =>
              /\ stored.last_event_id = 7
              /\ stored.total_events_processed = 3
              /\ cycleErr = "nil"

\* The walk-through cycle has run to its end.
C25_Witness ==
    /\ Len(trace) = 7
    /\ ~trace[1].stored.present
    /\ trace[7].op = "save"
    /\ trace[7].stored.last_event_id = 7
    /\ CycleOver

\* Timestamp order and id order of the events table disagree.
Disordered == \E e, f \in table : e.id < f.id /\ e.ts > f.ts

\* Records of the table the sink has never received although the persisted
\* last_event_id is beyond them.
Skipped ==
    { e \in table :
        stored.present /\ e.id < stored.last_event_id /\ sink.count[e.id] = 0 }

\* C26: a record left behind by the persisted last_event_id without having
\* been delivered stays undelivered in every later step (each later fetch
\* asks for ids above the checkpoint); C26_Witness is a failure-free run
\* with such a record, which exists when timestamp order and id order
\* disagree.
C26_SkippedForGood ==
    [][\A e \in Skipped : sink'.count[e.id] = 0 /\ e \in Skipped']_vars

\* A failure-free cycle has returned nil, and a record with an id below
\* the persisted last_event_id was never delivered.
C26_Witness ==
    /\ Skipped # {}
    /\ Disordered
    /\ config.BatchSize > 0
    /\ CycleOver
    /\ cycleErr = "nil"

\* C27: in a cycle, a delivered record whose id is above the checkpoint id
\* taken from the last record of its batch matches the next fetch again: it
\* is in the next page unless that page is full of other records.
\* C27_Witness is a failure-free run in which this makes the sink receive
\* a record twice.
C27_RefetchedAcrossPages ==
    \A i \in 1..Len(trace) :
        (i < Len(trace) /\ trace[i].op = "save" /\ trace[i + 1].op = "fetch") =>
            \A k \in 1..Len(trace[i].batch) :
                trace[i].batch[k].id > trace[i].cp.LastEventID =>
                    \/ \E j \in 1..Len(trace[i + 1].batch) :
                          trace[i + 1].batch[j] = trace[i].batch[k]
                    \/ Len(trace[i + 1].batch) = EffectiveLimit(trace[i + 1].opts)

\* A record was returned by two fetches of one failure-free cycle, on both
\* sides of a page boundary, and the sink has received it twice.
C27_Witness ==
    /\ Disordered
    /\ config.BatchSize > 0
    /\ \E e \in table :
          /\ sink.count[e.id] = 2
          /\ Len(trace) >= 6
          /\ trace[2].op = "fetch"
          /\ trace[5].op = "fetch"
          /\ \E k \in 1..Len(trace[2].batch) : trace[2].batch[k] = e
          /\ \E k \in 1..Len(trace[5].batch) : trace[5].batch[k] = e
          /\ trace[6].op = "send"

\* The actor has a row in user table t of the call.
Matched(call, actor, t) ==
    ~actor.null /\ \E r \in call.dirs[t] : r.id = actor.v

\* What the claim C28 says the display value of an actor is: the first
\* table's e-mail, else the second table's e-mail, else the second table's
\* name, else the raw actor id (empty when that is NULL).
AutoDisplay(call, actor) ==
    LET okta == CHOOSE r \in call.dirs.okta : r.id = actor.v
        netbird == CHOOSE r \in call.dirs.netbird : r.id = actor.v
    IN  IF Matched(call, actor, "okta") /\ ~okta.email.null THEN okta.email.v
        ELSE IF Matched(call, actor, "netbird") /\ ~netbird.email.null
             THEN netbird.email.v
        ELSE IF Matched(call, actor, "netbird") /\ ~netbird.name.null
             THEN netbird.name.v
        ELSE IF actor.null THEN ""
        ELSE actor.v

\* C28: with enrichment enabled and source "auto" or a tag that is not
\* known, the display value of the initiator and of the target is the first
\* non-null of: okta e-mail, users e-mail, users name, raw actor id.
C28_AutoFallbackChain ==
    \A i \in 1..Len(trace) :
        (/\ trace[i].op = "enrich"
         /\ trace[i].conf.Enabled
         /\ trace[i].conf.Source \in {"auto", "unknown_source"}) =>
            /\ trace[i].err = "nil"
            /\ trace[i].joins = {"okta", "netbird"}
            /\ trace[i].InitiatorEmail = AutoDisplay(trace[i], trace[i].initiator)
            /\ trace[i].TargetEmail = AutoDisplay(trace[i], trace[i].target)

\* An unknown tag, the initiator has a row only in the second table, and
\* its display value is that table's e-mail, not the raw id.
C28_Witness ==
    /\ Len(trace) = 1
    /\ trace[1].op = "enrich"
    /\ trace[1].conf = [Enabled |-> TRUE, Source |-> "unknown_source"]
    /\ trace[1].initiator = Val("u1")
    /\ trace[1].dirs.okta = {}
    /\ trace[1].dirs.netbird =
           {[id |-> "u1", email |-> Val("b@example.com"), name |-> Val("User One")]}
    /\ trace[1].InitiatorEmail = "b@example.com"

\* C29: with enrichment disabled (whatever the source tag) or with source
\* "none" the query joins no table and both display values are the raw
\* actor ids.
C29_NoneIsRawId ==
    \A i \in 1..Len(trace) :
        (/\ trace[i].op = "enrich"
         /\ (~trace[i].conf.Enabled \/ trace[i].conf.Source = "none")) =>
            /\ trace[i].err = "nil"
            /\ trace[i].joins = {}
            /\ trace[i].InitiatorEmail =
                  (IF trace[i].initiator.null THEN "" ELSE trace[i].initiator.v)
            /\ trace[i].TargetEmail =
                  (IF trace[i].target.null THEN "" ELSE trace[i].target.v)

\* Enrichment is disabled with source idp_okta_users configured, the
\* initiator has an e-mail in that table, and the display value is the id.
C29_Witness ==
    /\ Len(trace) = 1
    /\ trace[1].op = "enrich"
    /\ trace[1].conf = [Enabled |-> FALSE, Source |-> "idp_okta_users"]
    /\ trace[1].initiator = Val("u1")
    /\ \E r \in trace[1].dirs.okta : r.email = Val("a@example.com")
    /\ trace[1].InitiatorEmail = "u1"

C31_NullColumns ==
    \A i \in 1..Len(trace) :
        /\ trace[i].op # "fetch_err"
        /\ trace[i].op = "fetch" =>
              \A k \in 1..Len(trace[i].batch) :
                  \E r \in table :
                      /\ r.id = trace[i].batch[k].id
                      /\ \A c \in DOMAIN NullableColumns :
                            trace[i].batch[k][NullableColumns[c]] =
                                (IF r[c].null THEN "" ELSE r[c].v)
        /\ trace[i].op \in {"send", "send_err"} =>
              /\ trace[i - 1].op = "fetch"
              /\ trace[i].batch = trace[i - 1].batch
        /\ trace[i].op = "save" =>
              /\ trace[i - 1].op = "send"
              /\ trace[i].stored.last_event_id = Last(trace[i].batch).id
              /\ trace[i].stored.total_events_processed =
                    trace[1].cp.TotalEventsProcessed + Len(trace[i].batch)

\* The row with all six columns NULL has been delivered and its id saved.
C31_Witness ==
    /\ \E r \in table : \A c \in DOMAIN NullableColumns : r[c].null
    /\ Len(trace) = 4
    /\ trace[4].op = "save"
    /\ trace[3].batch[1].InitiatorID = ""
    /\ trace[3].batch[1].TargetEmail = ""
    /\ stored.present
    /\ stored.last_event_id = 1

\* The rows the filter set of the claims selects: account, time lower and
\* upper bound, activity and minimum id, each when present in the options.
FilterSet(o) ==
    { r \in QueryRows :
        /\ (o.AccountID # "" => r.account_id = o.AccountID)
        /\ (~o.StartTime.nil => r.ts >= o.StartTime.t)
        /\ (~o.EndTime.nil => r.ts <= o.EndTime.t)
        /\ (~o.Activity.nil => r.activity = o.Activity.v)
        /\ (~o.MinEventID.nil => r.id > o.MinEventID.v) }

\* C32 (as stated): GetEventCount(opts) is the number of rows matching the
\* filter set GetEvents(opts) applies, minimum id included.
C32_Original ==
    \A i \in 1..Len(trace) :
        trace[i].op = "GetEventCount" =>
            trace[i].count = Cardinality(FilterSet(trace[i].opts))

\* The filters present in the options, in the fixed order of the claim.
PresentFilters(o) ==
    SelectSeq(<< [opt |-> "AccountID", col |-> "account_id", op |-> "=",
                  present |-> o.AccountID # "", v |-> o.AccountID],
                 [opt |-> "StartTime", col |-> "timestamp", op |-> ">=",
                  present |-> ~o.StartTime.nil,
                  v |-> IF o.StartTime.nil THEN 0 ELSE o.StartTime.t],
                 [opt |-> "EndTime", col |-> "timestamp", op |-> "<=",
                  present |-> ~o.EndTime.nil,
                  v |-> IF o.EndTime.nil THEN 0 ELSE o.EndTime.t],
                 [opt |-> "Activity", col |-> "activity", op |-> "=",
                  present |-> ~o.Activity.nil,
                  v |-> IF o.Activity.nil THEN 0 ELSE o.Activity.v],
                 [opt |-> "MinEventID", col |-> "id", op |-> ">",
                  present |-> ~o.MinEventID.nil,
                  v |-> IF o.MinEventID.nil THEN 0 ELSE o.MinEventID.v] >>,
              LAMBDA f : f.present)

\* C34: the WHERE clause of GetEvents is the conjunction of exactly the
\* filters present in the options, in the order account, time lower bound,
\* time upper bound, activity, minimum id, on parameters $1..$k; then come
\* LIMIT $k+1 (1000 for limit 0) and OFFSET $k+2; the k+2 args are in the
\* same order.  The rows selected are those of the filter set.
C34_Statement ==
    \A i \in 1..Len(trace) :
        trace[i].op = "GetEvents" =>
            LET o == trace[i].opts
                st == trace[i].statement
                f == PresentFilters(o)
                k == Len(f)
            IN  /\ Len(st.conditions) = k
                /\ \A j \in 1..k :
                      /\ st.conditions[j] = [col |-> f[j].col, op |-> f[j].op, pos |-> j]
                      /\ st.args[j] = [opt |-> f[j].opt, v |-> f[j].v]
                /\ st.limitPos = k + 1
                /\ st.offsetPos = k + 2
                /\ Len(st.args) = k + 2
                /\ st.args[k + 1].v = (IF o.Limit = 0 THEN 1000 ELSE o.Limit)
                /\ st.args[k + 2].v = o.Offset
                /\ trace[i].matched = FilterSet(o)

\* All five filters are present and the limit is 0: five conditions on
\* $1..$5, LIMIT $6 with 1000, OFFSET $7.
C34_Witness ==
    /\ Len(trace) = 1
    /\ trace[1].op = "GetEvents"
    /\ Len(trace[1].statement.conditions) = 5
    /\ trace[1].statement.conditions[5] = [col |-> "id", op |-> ">", pos |-> 5]
    /\ trace[1].statement.limitPos = 6
    /\ trace[1].statement.args[6].v = 1000
    /\ Len(trace[1].statement.args) = 7

RECURSIVE CycleDelivered(_)
CycleDelivered(i) ==
    IF i = 0 THEN <<>>
    ELSE IF trace[i].op = "send"
         THEN CycleDelivered(i - 1) \o trace[i].batch
         ELSE CycleDelivered(i - 1)

\* C35: a failure-free cycle over a table that did not change during the
\* cycle and whose ids and timestamps increase strictly together (no
\* lookback configured) has delivered the records with an id above the
\* checkpoint it started with, each once, in ascending id order, and the
\* persisted last_event_id is then the largest id of the table.
C35_CycleDeliversAll ==
    (/\ CycleOver
     /\ cycleErr = "nil"
     /\ OrderedTable
     /\ trace[1].table = table)
    => LET start == trace[1].cp.LastEventID
           d == CycleDelivered(Len(trace))
       IN  /\ { d[k] : k \in 1..Len(d) } = { e \in table : e.id > start }
           /\ \A j, k \in 1..Len(d) : j < k => d[j].id < d[k].id
           /\ table # {} =>
                 /\ stored.present
                 /\ \A e \in table : e.id <= stored.last_event_id
                 /\ \E e \in table : e.id = stored.last_event_id

\* A resumed cycle over an unchanged ordered table has delivered the one
\* record above its starting checkpoint, in a table of two, and saved it.
C35_Witness ==
    /\ CycleOver
    /\ cycleErr = "nil"
    /\ OrderedTable
    /\ Len(trace) > 0
    /\ trace[1].table = table
    /\ Cardinality(table) = 2
    /\ trace[1].cp.LastEventID = 1
    /\ CycleDelivered(Len(trace)) = <<[id |-> 2, ts |-> 2]>>
    /\ stored.last_event_id = 2

\* last_event_id and total_events_processed of the persisted row; an absent
\* row counts as 0 and 0, the values of a freshly initialised checkpoint.
PersistedId == IF stored.present THEN stored.last_event_id ELSE 0

PersistedTotal == IF stored.present THEN stored.total_events_processed ELSE 0

\* The process holds a checkpoint whose id or total is not the persisted one.
Differ ==
    /\ cp.loaded
    /\ \/ cp.LastEventID # PersistedId
       \/ cp.TotalEventsProcessed # PersistedTotal

\* C36: the in-memory last_event_id and total_events_processed of a process
\* are never below the persisted ones; they come to differ only by the
\* advance that follows a successful delivery, and come to agree again only
\* by a successful save (so they still differ after a failed save).
C36_InMemoryNotBehind ==
    /\ [](cp.loaded =>
            /\ cp.LastEventID >= PersistedId
            /\ cp.TotalEventsProcessed >= PersistedTotal)
    /\ [][/\ (cp.loaded /\ ~Differ /\ Differ') =>
               /\ pc = "send"
               /\ pc' = "save"
               /\ cp' = AdvanceCheckpoint(cp, batch, hostname)
               /\ stored' = stored
          /\ (Differ /\ cp'.loaded /\ ~Differ') =>
               /\ pc = "save"
               /\ cycleErr' # "save"
               /\ stored' = RowOf(cp)
               /\ cp' = cp]_vars

\* A save has failed, and the process waits for its next cycle with an
\* in-memory checkpoint ahead of the persisted row in id and in total.
C36_Witness ==
    /\ pc = "wait"
    /\ cycleErr = "save"
    /\ stored.present
    /\ cp.LastEventID > stored.last_event_id
    /\ cp.TotalEventsProcessed > stored.total_events_processed

\* C37: when a save of a process has succeeded, the persisted
\* total_events_processed is the total the process loaded at its start (0
\* when there was no row) plus the number of records of all the batches it
\* has delivered since, those whose own save failed included.
C37_PersistedTotal ==
    (Len(trace) > 0 /\ trace[Len(trace)].op = "save") =>
        /\ stored.present
        /\ stored.total_events_processed = sink.loaded + sink.sent

\* The save of an earlier cycle of the process failed after a delivery,
\* and a later save of the same process has succeeded: the row counts the
\* records of both deliveries.
C37_Witness ==
    /\ Len(trace) > 0
    /\ trace[Len(trace)].op = "save"
    /\ trace[1].cp.TotalEventsProcessed >
         (IF trace[1].stored.present
          THEN trace[1].stored.total_events_processed ELSE 0)
    /\ sink.sent > Len(trace[Len(trace)].batch)
    /\ stored.total_events_processed = sink.loaded + sink.sent

\* The positions of the GetEvents calls in the cycle history.
Fetches == { i \in 1..Len(trace) : trace[i].op \in {"fetch", "fetch_err"} }

\* The records that match the options a cycle starts with.
Eligible == Matches(trace[1].opts, trace[1].cp)

\* C38: every fetch of a cycle after its first carries a minimum id, which
\* is above the bound of every earlier fetch of the cycle; while the table
\* is the one the cycle started on, the cycle has made at most n + 1
\* fetches for n records eligible at its start; and every cycle ends, with
\* or without an error.
C38_CycleTerminates ==
    /\ [](\A i, j \in Fetches :
            i < j => /\ trace[j].opts.MinEventID = "ptr"
                     /\ trace[j].cp.LastEventID > trace[i].cp.LastEventID
                     /\ trace[j].cp.LastEventID > 0)
    /\ []((Len(trace) > 0 /\ trace[1].table = table) =>
            Cardinality(Fetches) <= Cardinality(Eligible) + 1)
    /\ (pc \in {"loop", "send", "save"} ~> CycleOver)

\* A cycle over an unchanged table of two eligible records, fetched one by
\* one, has ended after three fetches, the last one empty.
C38_Witness ==
    /\ CycleOver
    /\ cycleErr = "nil"
    /\ trace[1].table = table
    /\ Cardinality(Eligible) = 2
    /\ Cardinality(Fetches) = 3
    /\ trace[Len(trace)].op = "fetch"
    /\ trace[Len(trace)].batch = <<>>

\* C39: a cycle that starts with in-memory last_event_id = 0 and a lookback
\* configured computes its time lower bound from the clock at its start,
\* whatever an earlier cycle used; a cycle that starts with last_event_id
\* > 0 has a minimum id and no time bound; within a cycle the time bound
\* never changes, and the minimum id changes only by being set after a
\* committed batch, so that every fetch of a first-run cycle carries the
\* bound of its start, and after the first commit the minimum id as well.
C39_BoundsAcrossCycles ==
    /\ [][/\ (pc = "cycle" /\ pc' = "loop") =>
               IF cp.LastEventID > 0
               THEN /\ opts'.MinEventID = "ptr"
                    /\ opts'.StartTime = NilTime
               ELSE /\ opts'.MinEventID = "nil"
                    /\ config.LookbackHours > 0 =>
                          opts'.StartTime =
                              [nil |-> FALSE, t |-> now - config.LookbackHours]
          /\ (InCycle /\ pc' # "run") =>
               /\ opts'.StartTime = opts.StartTime
               /\ opts'.MinEventID # opts.MinEventID =>
                     /\ pc = "save"
                     /\ stored' = RowOf(cp)
                     /\ opts'.MinEventID = "ptr"]_vars
    /\ []((Len(trace) > 0 /\ trace[1].cp.LastEventID = 0
             /\ config.LookbackHours > 0) =>
            \A i \in Fetches :
                /\ trace[i].opts.StartTime = trace[1].opts.StartTime
                /\ ~trace[i].opts.StartTime.nil
                /\ (\E j \in 1..(i - 1) : trace[j].op = "save")
                      <=> trace[i].opts.MinEventID = "ptr")

\* Time has passed since the process started; a first-run cycle with a
\* lookback has committed a full batch and fetched again, with the time
\* bound of its start and the minimum id.
C39_Witness ==
    /\ Len(trace) = 5
    /\ trace[1].cp.LastEventID = 0
    /\ config.LookbackHours > 0
    /\ now > MaxTs
    /\ trace[2].opts.MinEventID = "nil"
    /\ trace[5].op = "fetch"
    /\ trace[5].opts.MinEventID = "ptr"
    /\ trace[5].opts.StartTime = [nil |-> FALSE, t |-> now - config.LookbackHours]

====
